---- MODULE Spec2Model ----
(***************************************************************************)
(* Model of the bucket manager: the provider adapters (r2-client,          *)
(* s3-client), the storage factory, the bucket configuration loader and    *)
(* the HTTP route handlers.                                                *)
(*                                                                         *)
(* Object keys, prefixes and tokens are JavaScript strings; they are       *)
(* modelled as sequences of one-character strings so that startsWith,      *)
(* endsWith, replace, split and the provider's key order can be computed.  *)
(* The empty sequence stands for "" and, where the code tests a value for  *)
(* truthiness, for undefined as well (both are falsy).                     *)
(***************************************************************************)
EXTENDS Integers, Sequences, FiniteSets, TLC

VARIABLES
  store,    \* keys of the objects held by the bucket at the provider
  req,      \* the request (or call) being served and its arguments
  pc,       \* position of the handler / caller
  token,    \* continuation token the caller holds for its next listing call
  pages,    \* results returned so far to the caller, oldest first
  calls,    \* provider calls issued for the request, oldest first
  resp,     \* the response (or return value) of the request
  configFile, \* config/buckets.json as found on disk
  allKeys,  \* deleteFolder: the keys collected by its listing loop
  batchStart, \* deleteFolder: the index i of its batch loop
  before,   \* the bucket's keys when the request arrived (history)
  ui,       \* the BucketManager component: its React state and its last request
  bytes     \* the bytes the buckets hold under their keys, where bytes matter

vars == <<store, req, pc, token, pages, calls, resp, configFile, allKeys,
          batchStart, before, ui, bytes>>

folderVars == <<allKeys, batchStart, before>>

\* the value of ui where no component is mounted
NoUi == <<>>

\* the value of bytes where the bytes of the objects play no part
NoBytes == <<>>

(***************************************************************************)
(* Bounds of the model.                                                    *)
(***************************************************************************)
MaxKeyLen == 3        \* longest object key drawn
MaxObjects == 3       \* most objects in a drawn bucket
MaxPrefixLen == 2     \* longest prefix / folder path argument drawn
MaxMaxKeys == 2       \* largest maxKeys argument drawn
MaxBatchKeys == 2001  \* most keys handed to a batch deletion
MaxRouteObjects == 1  \* most objects in the bucket a single request meets
MaxRouteKeys == 2     \* most keys in the body of a delete-batch request
MaxBuckets == 2       \* most entries in a drawn configuration file
MaxMissing == 1       \* most fields missing from a drawn entry

(***************************************************************************)
(* Strings.                                                                *)
(***************************************************************************)
Chars == {"a", "/"}

Slash == <<"/">>

NoToken == <<>>

\* UTF-8 code of a character: the provider lists keys in byte order
Ord(c) == CASE c = "/" -> 47 [] c = "a" -> 97 [] OTHER -> 0

StringsUpTo(n) == UNION {[1..k -> Chars] : k \in 0..n}

KeyUniverse == StringsUpTo(MaxKeyLen) \ {<<>>}

LexLess(s, t) ==
  \E i \in 1..Len(t) :
    /\ i <= Len(s) + 1
    /\ \A j \in 1..(i - 1) : s[j] = t[j]
    /\ (i = Len(s) + 1 \/ Ord(s[i]) < Ord(t[i]))

RECURSIVE SortKeys(_)
SortKeys(S) ==
  IF S = {} THEN <<>>
  ELSE LET m == CHOOSE x \in S : \A y \in S \ {x} : LexLess(x, y)
       IN <<m>> \o SortKeys(S \ {m})

StartsWith(s, p) == Len(p) <= Len(s) /\ SubSeq(s, 1, Len(p)) = p

EndsWith(s, p) == Len(p) <= Len(s) /\ SubSeq(s, Len(s) - Len(p) + 1, Len(s)) = p

\* String.prototype.indexOf: zero-based index of the first occurrence, or -1
IndexOf(s, pat) ==
  LET hits == {i \in 0..(Len(s) - Len(pat)) : SubSeq(s, i + 1, i + Len(pat)) = pat}
  IN IF hits = {} THEN -1 ELSE CHOOSE i \in hits : \A j \in hits : i <= j

\* String.prototype.lastIndexOf
LastIndexOf(s, pat) ==
  LET hits == {i \in 0..(Len(s) - Len(pat)) : SubSeq(s, i + 1, i + Len(pat)) = pat}
  IN IF hits = {} THEN -1 ELSE CHOOSE i \in hits : \A j \in hits : i >= j

\* s.replace(pat, "") with a string pattern: only the first occurrence goes
ReplaceFirst(s, pat) ==
  LET i == IndexOf(s, pat)
  IN IF i = -1 THEN s
     ELSE SubSeq(s, 1, i) \o SubSeq(s, i + Len(pat) + 1, Len(s))

\* s.split("/").pop(): the text after the last "/"
LastSegment(s) == SubSeq(s, LastIndexOf(s, Slash) + 2, Len(s))

SeqToSet(q) == {q[i] : i \in DOMAIN q}

RECURSIVE SelectIn(_, _)
SelectIn(q, S) ==
  IF q = <<>> THEN <<>>
  ELSE (IF Head(q) \in S THEN <<Head(q)>> ELSE <<>>) \o SelectIn(Tail(q), S)

Min(a, b) == IF a <= b THEN a ELSE b

(***************************************************************************)
(* The storage provider (S3-compatible service behind the SDK client).     *)
(* Object bodies are abstracted: a folder marker (key ending in "/") is a  *)
(* zero-byte object and every other object holds one byte.                 *)
(***************************************************************************)
StoredSize(k) == IF EndsWith(k, Slash) THEN 0 ELSE 1

ETagOf(k) == <<"-", "etag">>

\* what a listing shows for key k: the key itself, or the common prefix
\* that ends at the first delimiter after Prefix
ListEntry(k, Prefix, Delimiter) ==
  LET rest == SubSeq(k, Len(Prefix) + 1, Len(k))
      i == IF Delimiter = <<>> THEN -1 ELSE IndexOf(rest, Delimiter)
  IN IF i = -1 THEN [kind |-> "key", name |-> k]
     ELSE [kind |-> "prefix", name |-> SubSeq(k, 1, Len(Prefix) + i + Len(Delimiter))]

\* ListObjectsV2: keys and common prefixes in key order, at most MaxKeys of
\* them per response, resumed after ContinuationToken
ListObjectsV2(keys, cmd) ==
  LET scoped == {k \in keys : StartsWith(k, cmd.Prefix)}
      entries == {ListEntry(k, cmd.Prefix, cmd.Delimiter) : k \in scoped}
      prefixNames == {e.name : e \in {x \in entries : x.kind = "prefix"}}
      keyNames == {e.name : e \in {x \in entries : x.kind = "key"}}
      todo == {n \in prefixNames \cup keyNames :
                 cmd.ContinuationToken = NoToken \/ LexLess(cmd.ContinuationToken, n)}
      sorted == SortKeys(todo)
      n == Min(cmd.MaxKeys, Len(sorted))
      page == SubSeq(sorted, 1, n)
  IN [Contents |-> SelectIn(page, keyNames),
      CommonPrefixes |-> SelectIn(page, prefixNames),
      IsTruncated |-> n < Len(sorted),
      NextContinuationToken |-> IF n < Len(sorted) THEN page[n] ELSE NoToken,
      KeyCount |-> n]

\* the provider's default and largest page of a listing
ProviderMaxKeys == 1000

Call(name, bucket, input) == [op |-> name, Bucket |-> bucket, input |-> input]

ProviderError == "provider error"

\* outcomes of a function: a returned value or a thrown error, with the
\* provider calls it issued
Returned(v, cs) == [threw |-> FALSE, value |-> v, error |-> "", calls |-> cs]

Threw(msg, cs) == [threw |-> TRUE, value |-> <<>>, error |-> msg, calls |-> cs]

NoCount == -1

(***************************************************************************)
(* r2-client                                                               *)
(***************************************************************************)
R2MissingEndpoint == "R2 bucket is missing endpoint configuration"

\* createR2Client throws when the configuration has no endpoint
R2ClientFails(config) == config.endpoint = ""

R2FolderName(folderPath, prefix) ==
  ReplaceFirst(ReplaceFirst(folderPath, prefix), Slash)

R2KeepsFolder(folderPath, prefix) == R2FolderName(folderPath, prefix) # <<>>

R2FolderObject(folderPath, prefix) ==
  [id |-> <<"folder-">> \o folderPath,
   name |-> R2FolderName(folderPath, prefix),
   path |-> folderPath,
   type |-> "folder",
   size |-> 0,
   isFolder |-> TRUE]

RECURSIVE R2Folders(_, _)
R2Folders(commonPrefixes, prefix) ==
  IF commonPrefixes = <<>> THEN <<>>
  ELSE (IF R2KeepsFolder(Head(commonPrefixes), prefix)
        THEN <<R2FolderObject(Head(commonPrefixes), prefix)>>
        ELSE <<>>) \o R2Folders(Tail(commonPrefixes), prefix)

R2FileName(fullPath) ==
  IF LastSegment(fullPath) = <<>> THEN <<"unknown">> ELSE LastSegment(fullPath)

R2SkipsContent_Never(fullPath) == FALSE

R2SkipsContent(fullPath) == EndsWith(fullPath, Slash)

R2FileObject(fullPath) ==
  [id |-> fullPath \o ETagOf(fullPath),
   name |-> R2FileName(fullPath),
   path |-> fullPath,
   type |-> "application/octet-stream",
   size |-> StoredSize(fullPath),
   isFolder |-> FALSE]

RECURSIVE R2Files(_)
R2Files(contents) ==
  IF contents = <<>> THEN <<>>
  ELSE (IF R2SkipsContent(Head(contents)) THEN <<>>
        ELSE <<R2FileObject(Head(contents))>>) \o R2Files(Tail(contents))

R2ListCommand(config, maxKeys, continuationToken, prefix) ==
  Call("ListObjectsV2", config.name,
       [MaxKeys |-> maxKeys, ContinuationToken |-> continuationToken,
        Prefix |-> prefix, Delimiter |-> Slash])

R2NextToken_Dropped(response) == NoToken

R2NextToken(response) == response.NextContinuationToken

R2ListResult(response, prefix) ==
  [objects |-> R2Folders(response.CommonPrefixes, prefix) \o R2Files(response.Contents),
   nextContinuationToken |-> R2NextToken(response),
   isTruncated |-> response.IsTruncated,
   totalCount |-> response.KeyCount]

\* listObjects(config, maxKeys, continuationToken, prefix); providerOk tells
\* whether the provider answers the call or fails it
R2ListObjects(config, keys, maxKeys, continuationToken, prefix, providerOk) ==
  LET command == R2ListCommand(config, maxKeys, continuationToken, prefix)
  IN IF R2ClientFails(config) THEN Threw(R2MissingEndpoint, <<>>)
     ELSE IF ~providerOk THEN Threw(ProviderError, <<command>>)
     ELSE Returned(R2ListResult(ListObjectsV2(keys, command.input), prefix),
                   <<command>>)

(***************************************************************************)
(* s3-client                                                               *)
(***************************************************************************)
S3Object(key) ==
  [id |-> key \o ETagOf(key),
   name |-> key,
   type |-> "application/octet-stream",
   size |-> StoredSize(key)]

RECURSIVE S3Objects(_)
S3Objects(contents) ==
  IF contents = <<>> THEN <<>>
  ELSE <<S3Object(Head(contents))>> \o S3Objects(Tail(contents))

S3ListCommand(config, maxKeys, continuationToken) ==
  Call("ListObjectsV2", config.name,
       [MaxKeys |-> maxKeys, ContinuationToken |-> continuationToken,
        Prefix |-> <<>>, Delimiter |-> <<>>])

S3ListResult(response) ==
  IF response.Contents = <<>>
  THEN [objects |-> <<>>, nextContinuationToken |-> NoToken,
        isTruncated |-> FALSE, totalCount |-> NoCount]
  ELSE [objects |-> S3Objects(response.Contents),
        nextContinuationToken |-> response.NextContinuationToken,
        isTruncated |-> response.IsTruncated,
        totalCount |-> response.KeyCount]

\* listObjects(config, maxKeys, continuationToken): no prefix parameter
S3ListObjects(config, keys, maxKeys, continuationToken, providerOk) ==
  LET command == S3ListCommand(config, maxKeys, continuationToken)
  IN IF ~providerOk THEN Threw(ProviderError, <<command>>)
     ELSE Returned(S3ListResult(ListObjectsV2(keys, command.input)), <<command>>)

(***************************************************************************)
(* storage-factory: getStorageClient(config)                               *)
(***************************************************************************)
Unsupported == "Unsupported storage provider"

\* storageClient.listObjects(maxKeys = 100, continuationToken, prefix = "");
\* the s3 adapter is called with four arguments and ignores the fourth
StorageListObjects(config, keys, maxKeys, continuationToken, prefix, providerOk) ==
  CASE config.provider = "r2" ->
         R2ListObjects(config, keys, maxKeys, continuationToken, prefix, providerOk)
    [] config.provider = "s3" ->
         S3ListObjects(config, keys, maxKeys, continuationToken, providerOk)
    [] OTHER -> Threw(Unsupported, <<>>)

(***************************************************************************)
(* bucket-config: loadBucketConfigs reads config/buckets.json.  A field    *)
(* that is absent from an entry is the empty string (both are falsy).      *)
(***************************************************************************)
HasRequiredFields(bucket) ==
  /\ bucket.id # ""
  /\ bucket.name # ""
  /\ bucket.provider # ""
  /\ bucket.accessKeyId # ""
  /\ bucket.secretAccessKey # ""

R2HasEndpoint(bucket) == ~(bucket.provider = "r2" /\ bucket.endpoint = "")

NoConfigFile == "No buckets.json configuration file found"

BadConfigFormat == "Invalid buckets.json format"

MissingFields == "Invalid bucket configuration: missing required fields"

MissingEndpoint == "R2 bucket is missing required endpoint field"

LoadBucketConfigs(file) ==
  LET bad == {i \in DOMAIN file.buckets :
                ~HasRequiredFields(file.buckets[i]) \/ ~R2HasEndpoint(file.buckets[i])}
      first == CHOOSE i \in bad : \A j \in bad : i <= j
  IN IF ~file.exists THEN Threw(NoConfigFile, <<>>)
     ELSE IF ~file.isArray THEN Threw(BadConfigFormat, <<>>)
     ELSE IF bad = {} THEN Returned(file.buckets, <<>>)
     ELSE IF ~HasRequiredFields(file.buckets[first]) THEN Threw(MissingFields, <<>>)
     ELSE Threw(MissingEndpoint, <<>>)

ConfigFile(buckets) == [exists |-> TRUE, isArray |-> TRUE, buckets |-> buckets]

R2Config ==
  [id |-> "r2-media", name |-> "media-files", displayName |-> "Media Files (R2)",
   provider |-> "r2", region |-> "", endpoint |-> "https://r2.example",
   accessKeyId |-> "r2-access-key", secretAccessKey |-> "r2-secret-key"]

S3Config ==
  [id |-> "s3-my-bucket", name |-> "my-bucket", displayName |-> "My S3 Bucket",
   provider |-> "s3", region |-> "us-west-2", endpoint |-> "",
   accessKeyId |-> "aws-access-key", secretAccessKey |-> "aws-secret-key"]

ValidConfigFile == ConfigFile(<<S3Config, R2Config>>)

\* bucketConfigs.find((c) => c.id === bucketId): the first match, if any
FindBucket_Any(configs, bucketId) ==
  IF configs = <<>> THEN <<>> ELSE <<configs[1]>>

FindBucket(configs, bucketId) ==
  LET hits == {i \in DOMAIN configs : configs[i].id = bucketId}
  IN IF hits = {} THEN <<>>
     ELSE <<configs[CHOOSE i \in hits : \A j \in hits : i <= j]>>

(***************************************************************************)
(* HTTP routes.  A response is its status, its JSON body and the provider  *)
(* calls the handler issued before answering.                              *)
(***************************************************************************)
Response(status, body, cs) == [status |-> status, body |-> body, calls |-> cs]

NoResponse == [status |-> 0, body |-> <<>>, calls |-> <<>>]

BucketNotFound == Response(404, [error |-> "Bucket not found"], <<>>)

\* a field of a request's JSON body: its type (typeof, Array.isArray) and,
\* for a string or an array, its value
Json(type, value) == [type |-> type, value |-> value]

JsonString(s) == Json("string", s)

JsonArray(q) == Json("array", q)

JsonUndefined == Json("undefined", <<>>)

JsonNumber == Json("number", <<>>)

JsonObject == Json("object", <<>>)

JsonStrings(S) == {JsonString(x) : x \in S}

MissingOrNotString_Never(v) == FALSE

\* !v || typeof v !== 'string'
MissingOrNotString(v) == v.type # "string" \/ v.value = <<>>

\* !keys || !Array.isArray(keys) || keys.length === 0
MissingOrNotArray(v) == v.type # "array" \/ v.value = <<>>

Absent == -1

DefaultMaxKeys == 100

\* searchParams.get("maxKeys") ? parseInt(...) : 100
RouteMaxKeys(param) == IF param = Absent THEN DefaultMaxKeys ELSE param

\* GET /api/buckets/{bucketId}/objects?maxKeys&continuationToken&prefix:
\* the handler reads maxKeys and continuationToken and passes no prefix, so
\* storageClient.listObjects runs with its default prefix ""
GetObjectsRoute(file, keys, bucketId, maxKeysParam, tokenParam, prefixParam, providerOk) ==
  LET loaded == LoadBucketConfigs(file)
      found == FindBucket(loaded.value, bucketId)
      listed == StorageListObjects(found[1], keys, RouteMaxKeys(maxKeysParam),
                                   tokenParam, <<>>, providerOk)
  IN IF loaded.threw
     THEN Response(500, [error |-> "Failed to list objects", message |-> loaded.error], <<>>)
     ELSE IF found = <<>> THEN BucketNotFound
     ELSE IF listed.threw
     THEN Response(500, [error |-> "Failed to list objects", message |-> listed.error],
                   listed.calls)
     ELSE Response(200, listed.value, listed.calls)

(***************************************************************************)
(* Listing: a caller pages through a bucket, either through the HTTP route *)
(* (as fetchFiles of the UI does) or by calling the storage client.        *)
(***************************************************************************)
RECURSIVE SubsetsUpTo(_, _)
SubsetsUpTo(S, n) ==
  IF n = 0 THEN {{}}
  ELSE LET smaller == SubsetsUpTo(S, n - 1)
       IN smaller \cup {T \cup {x} : T \in smaller, x \in S}

Buckets == SubsetsUpTo(KeyUniverse, MaxObjects)

ListInit ==
  /\ configFile = ValidConfigFile
  /\ store \in Buckets
  /\ req \in [op : {"list"}, via : {"route", "adapter"},
              bucketId : {R2Config.id, S3Config.id},
              maxKeys : 1..MaxMaxKeys,
              prefix : StringsUpTo(MaxPrefixLen)]
  /\ pc = "page"
  /\ token = NoToken
  /\ pages = <<>>
  /\ calls = <<>>
  /\ resp = NoResponse
  /\ allKeys = <<>>
  /\ batchStart = 0
  /\ before = store
  /\ ui = NoUi
  /\ bytes = NoBytes

\* the caller keeps the page and, when told there is more, the token
TakePage(ok, result, cs) ==
  /\ calls' = calls \o cs
  /\ pages' = IF ok THEN Append(pages, result) ELSE pages
  /\ token' = IF ok THEN result.nextContinuationToken ELSE token
  /\ pc' = IF ok /\ result.isTruncated /\ result.nextContinuationToken # NoToken
           THEN "page" ELSE "done"

RouteListPage ==
  /\ pc = "page"
  /\ req.op = "list"
  /\ req.via = "route"
  /\ \E providerOk \in BOOLEAN :
       LET r == GetObjectsRoute(configFile, store, req.bucketId, req.maxKeys,
                                token, req.prefix, providerOk)
       IN /\ resp' = r
          /\ TakePage(r.status = 200, r.body, r.calls)
  /\ UNCHANGED <<bytes, ui, store, req, configFile, folderVars>>

AdapterListPage ==
  /\ pc = "page"
  /\ req.op = "list"
  /\ req.via = "adapter"
  /\ \E providerOk \in BOOLEAN :
       LET config == FindBucket(configFile.buckets, req.bucketId)[1]
           r == StorageListObjects(config, store, req.maxKeys, token, req.prefix,
                                   providerOk)
       IN /\ resp' = r
          /\ TakePage(~r.threw, r.value, r.calls)
  /\ UNCHANGED <<bytes, ui, store, req, configFile, folderVars>>

ListNext == RouteListPage \/ AdapterListPage

SpecList == ListInit /\ [][ListNext]_vars

(***************************************************************************)
(* Folder deletion: DELETE /api/buckets/{bucketId}/folders and deleteFolder *)
(* of r2-client, one action per provider call.                             *)
(***************************************************************************)
UnknownId == "no-such-bucket"

NormalizedPath_AsGiven(folderPath) == folderPath

\* folderPath.endsWith('/') ? folderPath : `${folderPath}/`
NormalizedPath(folderPath) ==
  IF EndsWith(folderPath, Slash) THEN folderPath ELSE folderPath \o Slash

\* for (let i = 0; i < allKeys.length; i += batchSize)
batchSize == 1000

\* allKeys.slice(i, i + batchSize)
BatchAt(keys, i) == SubSeq(keys, i + 1, Min(i + batchSize, Len(keys)))

\* DeleteObjects removes the named keys; naming a key that does not exist
\* is not an error, naming more than 1000 keys is
ProviderRejects(keys) == Len(keys) > ProviderMaxKeys

AfterDeleteObjects_RolledBack(keys, batch) == keys

AfterDeleteObjects(keys, batch) == keys \ SeqToSet(batch)

DeleteObjectsCommand(bucket, keys) == Call("DeleteObjects", bucket, [Objects |-> keys])

FolderListCommand_FirstPageAgain(config, normalizedPath, continuationToken) ==
  Call("ListObjectsV2", config.name,
       [Prefix |-> normalizedPath, ContinuationToken |-> NoToken])

FolderListCommand(config, normalizedPath, continuationToken) ==
  Call("ListObjectsV2", config.name,
       [Prefix |-> normalizedPath, ContinuationToken |-> continuationToken])

\* the provider answers a listing without MaxKeys with up to 1000 keys
FolderListResponse(keys, cmd, pageLen) ==
  ListObjectsV2(keys, [MaxKeys |-> pageLen, ContinuationToken |-> cmd.input.ContinuationToken,
                       Prefix |-> cmd.input.Prefix, Delimiter |-> <<>>])

\* if (allKeys.length === 0) allKeys = [normalizedPath]
WithMarkerFallback(keys, normalizedPath) ==
  IF Len(keys) = 0 THEN <<normalizedPath>> ELSE keys

DeletedCount_CountsUploads(keys) == Len(keys) + Len(pages)

DeletedCount(keys) == Len(keys)

FolderFailed(message, cs) ==
  Response(500, [error |-> "Failed to delete folder", message |-> message], cs)

FolderDeleted(count, folderPath, cs) ==
  Response(200, [deletedCount |-> count, folderPath |-> folderPath], cs)

FolderInit ==
  /\ configFile = ValidConfigFile
  /\ store \in Buckets
  /\ req \in [op : {"deleteFolder"}, bucketId : {R2Config.id, UnknownId},
              folderPath : JsonStrings(StringsUpTo(MaxPrefixLen))]
  /\ pc = "route"
  /\ token = NoToken
  /\ pages = <<>>
  /\ calls = <<>>
  /\ resp = NoResponse
  /\ allKeys = <<>>
  /\ batchStart = 0
  /\ before = store
  /\ ui = NoUi
  /\ bytes = NoBytes

\* the DELETE handler up to its call of storageClient.deleteFolder, and
\* deleteFolder up to its first listing call
DeleteFolderRoute ==
  /\ pc = "route"
  /\ req.op = "deleteFolder"
  /\ LET loaded == LoadBucketConfigs(configFile)
         found == FindBucket(loaded.value, req.bucketId)
     IN IF loaded.threw
        THEN resp' = FolderFailed(loaded.error, <<>>) /\ pc' = "done"
        ELSE IF found = <<>>
        THEN resp' = BucketNotFound /\ pc' = "done"
        ELSE IF MissingOrNotString(req.folderPath)
        THEN /\ resp' = Response(400, [error |-> "Folder path is required"], <<>>)
             /\ pc' = "done"
        ELSE IF R2ClientFails(found[1])
        THEN resp' = FolderFailed(R2MissingEndpoint, <<>>) /\ pc' = "done"
        ELSE resp' = resp /\ pc' = "list"
  /\ UNCHANGED <<bytes, ui, store, req, token, pages, calls, configFile, folderVars>>

\* one round of the do-while loop: a listing call and its response
DeleteFolderList ==
  /\ pc = "list"
  /\ LET config == FindBucket(configFile.buckets, req.bucketId)[1]
         normalizedPath == NormalizedPath(req.folderPath.value)
         command == FolderListCommand(config, normalizedPath, token)
     IN /\ calls' = Append(calls, command)
        /\ \/ /\ resp' = FolderFailed(ProviderError, calls')
              /\ pc' = "done"
              /\ UNCHANGED <<bytes, ui, token, allKeys>>
           \/ \E pageLen \in 1..Min(ProviderMaxKeys, Cardinality(store) + 1) :
                LET listResponse == FolderListResponse(store, command, pageLen)
                    collected == allKeys \o listResponse.Contents
                IN /\ token' = listResponse.NextContinuationToken
                   /\ allKeys' = IF token' # NoToken THEN collected
                                 ELSE WithMarkerFallback(collected, normalizedPath)
                   /\ pc' = IF token' # NoToken THEN "list" ELSE "delete"
                   /\ resp' = resp
  /\ UNCHANGED <<bytes, ui, store, req, pages, configFile, batchStart, before>>

\* one round of the batch loop: a deleteObjects call; after the last round
\* deleteFolder returns and the handler answers
DeleteFolderBatch ==
  /\ pc = "delete"
  /\ LET config == FindBucket(configFile.buckets, req.bucketId)[1]
         batch == BatchAt(allKeys, batchStart)
         command == DeleteObjectsCommand(config.name, batch)
     IN /\ calls' = Append(calls, command)
        /\ \/ /\ resp' = FolderFailed(ProviderError, calls')
              /\ pc' = "done"
              /\ UNCHANGED <<bytes, ui, store, batchStart>>
           \/ /\ ~ProviderRejects(batch)
              /\ store' = AfterDeleteObjects(store, batch)
              /\ batchStart' = batchStart + batchSize
              /\ IF batchStart' < Len(allKeys)
                 THEN resp' = resp /\ pc' = "delete"
                 ELSE /\ resp' = FolderDeleted(DeletedCount(allKeys), req.folderPath.value, calls')
                      /\ pc' = "done"
  /\ UNCHANGED <<bytes, ui, req, token, pages, configFile, allKeys, before>>

FolderNext == DeleteFolderRoute \/ DeleteFolderList \/ DeleteFolderBatch

SpecFolder == FolderInit /\ [][FolderNext]_vars

\* the objects under the folder when the request arrived
UnderFolder(keys, folderPath) == {k \in keys : StartsWith(k, NormalizedPath(folderPath))}

FolderDone == req.op = "deleteFolder" /\ pc = "done" /\ resp.status = 200

\* C1: a deleteFolder that ran without provider error deleted every object
\* under the normalized prefix and nothing else, and its deletedCount is the
\* number of objects that were under the prefix before the call.
C1_DeletedCountIsObjectCount ==
  FolderDone =>
    /\ store = before \ UnderFolder(before, req.folderPath.value)
    /\ resp.body.deletedCount = Cardinality(UnderFolder(before, req.folderPath.value))

(***************************************************************************)
(* Batch deletion: POST /api/buckets/{bucketId}/objects/delete-batch and   *)
(* the batch loop of deleteFolder, on key lists longer than the provider's *)
(* limit.  The n keys are named by their position, 1..n.                   *)
(***************************************************************************)
NumberedKeys(n) == [i \in 1..n |-> i]

\* getStorageClient(provider): the factory selected by the provider name
ClientFor(provider) ==
  CASE provider = "r2" -> Returned("r2", <<>>)
    [] provider = "s3" -> Returned("s3", <<>>)
    [] OTHER -> Threw(Unsupported, <<>>)

\* deleteObjects(keys) of either adapter: one DeleteObjects call for all keys
DeleteObjectsCall(bucket, keys, providerOk) ==
  LET command == DeleteObjectsCommand(bucket, keys)
  IN IF ~providerOk \/ ProviderRejects(keys) THEN Threw(ProviderError, <<command>>)
     ELSE Returned(keys, <<command>>)

BatchFailed(cs) == Response(500, [error |-> "Failed to delete objects"], cs)

\* POST delete-batch with body {keys}
DeleteBatchHandler(file, bucketId, keys, providerOk) ==
  LET loaded == LoadBucketConfigs(file)
      found == FindBucket(loaded.value, bucketId)
      client == ClientFor(found[1].provider)
      deleted == DeleteObjectsCall(found[1].name, keys.value, providerOk)
  IN IF loaded.threw THEN BatchFailed(<<>>)
     ELSE IF found = <<>> THEN BucketNotFound
     ELSE IF MissingOrNotArray(keys)
     THEN Response(400, [error |-> "No valid keys provided for deletion"], <<>>)
     ELSE IF client.threw THEN BatchFailed(<<>>)
     ELSE IF deleted.threw THEN BatchFailed(deleted.calls)
     ELSE Response(200, [message |-> "Successfully deleted", count |-> Len(keys.value)],
                   deleted.calls)

DeleteBatchRoute ==
  /\ pc = "route"
  /\ req.op = "deleteBatch"
  /\ \E providerOk \in BOOLEAN :
       LET r == DeleteBatchHandler(configFile, req.bucketId, req.keys, providerOk)
       IN /\ resp' = r
          /\ calls' = calls \o r.calls
          /\ store' = IF r.status = 200 THEN AfterDeleteObjects(store, req.keys.value)
                      ELSE store
  /\ pc' = "done"
  /\ UNCHANGED <<bytes, ui, req, token, pages, configFile, folderVars>>

\* a delete-batch request for n keys, or deleteFolder when its listing loop
\* has collected n keys, or a delete-folder request on a small bucket
BatchInit ==
  /\ configFile = ValidConfigFile
  /\ \/ \E n \in 0..MaxBatchKeys :
          /\ store = 1..n
          /\ \/ /\ req \in [op : {"deleteBatch"}, bucketId : {R2Config.id, S3Config.id},
                            keys : {JsonArray(NumberedKeys(n))}]
                /\ pc = "route"
                /\ allKeys = <<>>
             \/ /\ n >= 1
                /\ req = [op |-> "deleteFolder", bucketId |-> R2Config.id,
                          folderPath |-> JsonString(<<"a">>)]
                /\ pc = "delete"
                /\ allKeys = NumberedKeys(n)
     \/ /\ store \in SubsetsUpTo(KeyUniverse, MaxRouteObjects)
        /\ req \in [op : {"deleteFolder"}, bucketId : {R2Config.id},
                    folderPath : JsonStrings(StringsUpTo(MaxPrefixLen))]
        /\ pc = "route"
        /\ allKeys = <<>>
  /\ token = NoToken
  /\ pages = <<>>
  /\ calls = <<>>
  /\ resp = NoResponse
  /\ batchStart = 0
  /\ before = store
  /\ ui = NoUi
  /\ bytes = NoBytes

BatchNext == DeleteBatchRoute \/ DeleteFolderRoute \/ DeleteFolderList \/ DeleteFolderBatch

SpecBatch == BatchInit /\ [][BatchNext]_vars

RECURSIVE DeletedKeys(_)
DeletedKeys(cs) ==
  IF cs = <<>> THEN <<>>
  ELSE (IF Head(cs).op = "DeleteObjects" THEN Head(cs).input.Objects ELSE <<>>)
       \o DeletedKeys(Tail(cs))

RequestedKeys == IF req.op = "deleteBatch" THEN req.keys.value ELSE allKeys

\* C2: every DeleteObjects call carries at most 1000 keys, and once a batch
\* deletion (deleteFolder or the delete-batch route) has gone through, its
\* calls together name every requested key exactly once.
C2_BatchCallsCarryAtMost1000 ==
  /\ \A i \in DOMAIN calls :
       calls[i].op = "DeleteObjects" => Len(calls[i].input.Objects) <= 1000
  /\ (pc = "done" /\ resp.status = 200) => DeletedKeys(calls) = RequestedKeys

\* the DeleteObjects calls among the calls issued so far
DeleteCalls == SelectSeq(calls, LAMBDA c : c.op = "DeleteObjects")

\* the first n keys that deleteFolder collected
FirstKeys(n) == SeqToSet(SubSeq(allKeys, 1, Min(n, Len(allKeys))))

FolderFailedAt(op) ==
  /\ req.op = "deleteFolder"
  /\ pc = "done"
  /\ resp.status = 500
  /\ calls # <<>>
  /\ calls[Len(calls)].op = op

\* C12: deleteFolder has no rollback.  When its k-th DeleteObjects call
\* fails, the keys of batches 1..k-1 are gone from the bucket, the keys of
\* the batches after k are all still there and no call was made for them,
\* the answer carries the provider's error and no deletedCount; when a
\* listing call fails, the bucket is as it was and no DeleteObjects call
\* was made.
C12_NoRollbackOnFailure ==
  /\ FolderFailedAt("DeleteObjects") =>
       LET k == Len(DeleteCalls)
       IN /\ batchStart = (k - 1) * batchSize
          /\ \A j \in 1..k : DeleteCalls[j].input.Objects
                               = SubSeq(allKeys, (j - 1) * batchSize + 1,
                                        Min(j * batchSize, Len(allKeys)))
          /\ store \cap FirstKeys((k - 1) * batchSize) = {}
          /\ (before \ FirstKeys(k * batchSize)) \subseteq store
          /\ resp.body.message = ProviderError
          /\ "deletedCount" \notin DOMAIN resp.body
  /\ FolderFailedAt("ListObjectsV2") =>
       /\ store = before
       /\ DeleteCalls = <<>>
       /\ resp.body.message = ProviderError
       /\ "deletedCount" \notin DOMAIN resp.body

C12_Witness ==
  /\ FolderFailedAt("DeleteObjects")
  /\ Len(DeleteCalls) = 2
  /\ Len(allKeys) > 2 * batchSize
  /\ store = before \ FirstKeys(batchSize)
  /\ store # {}

(***************************************************************************)
(* The single-object operations of the adapters and of the factory.  Each  *)
(* takes providerOk, which tells whether the provider answers the call.    *)
(***************************************************************************)
PutObjectCommand(bucket, key, body, contentType) ==
  Call("PutObject", bucket, [Key |-> key, Body |-> body, ContentType |-> contentType])

GetObjectCommand(bucket, key) == Call("GetObject", bucket, [Key |-> key])

DeleteObjectCommand(bucket, key) == Call("DeleteObject", bucket, [Key |-> key])

Send_Retried(command, providerOk, answer) ==
  IF providerOk THEN Returned(answer, <<command>>)
  ELSE Threw(ProviderError, <<command, command>>)

\* send(command): the provider fails the call, or answers it
Send(command, providerOk, answer) ==
  IF providerOk THEN Returned(answer, <<command>>)
  ELSE Threw(ProviderError, <<command>>)

R2GetObject(config, keys, key, providerOk) ==
  IF R2ClientFails(config) THEN Threw(R2MissingEndpoint, <<>>)
  ELSE Send(GetObjectCommand(config.name, key), providerOk /\ key \in keys,
            [Body |-> key, ContentType |-> "application/octet-stream"])

R2DeleteObject(config, key, providerOk) ==
  IF R2ClientFails(config) THEN Threw(R2MissingEndpoint, <<>>)
  ELSE Send(DeleteObjectCommand(config.name, key), providerOk, key)

R2DeleteObjects(config, keys, providerOk) ==
  IF R2ClientFails(config) THEN Threw(R2MissingEndpoint, <<>>)
  ELSE DeleteObjectsCall(config.name, keys, providerOk)

R2UploadObject(config, key, body, contentType, providerOk) ==
  IF R2ClientFails(config) THEN Threw(R2MissingEndpoint, <<>>)
  ELSE Send(PutObjectCommand(config.name, key, body, contentType), providerOk, key)

R2CreateFolder(config, folderPath, providerOk) ==
  IF R2ClientFails(config) THEN Threw(R2MissingEndpoint, <<>>)
  ELSE Send(PutObjectCommand(config.name, NormalizedPath(folderPath), "",
                             "application/x-directory"),
            providerOk, NormalizedPath(folderPath))

R2GeneratePresignedUrl_OtherBucket(config, key, expiresIn) ==
  IF R2ClientFails(config) THEN Threw(R2MissingEndpoint, <<>>)
  ELSE Returned([Bucket |-> "my-bucket", Key |-> key, expiresIn |-> expiresIn], <<>>)

\* getSignedUrl signs locally: no provider call
R2GeneratePresignedUrl(config, key, expiresIn) ==
  IF R2ClientFails(config) THEN Threw(R2MissingEndpoint, <<>>)
  ELSE Returned([Bucket |-> config.name, Key |-> key, expiresIn |-> expiresIn], <<>>)

S3GetObject(config, keys, key, providerOk) ==
  Send(GetObjectCommand(config.name, key), providerOk /\ key \in keys,
       [Body |-> key, ContentType |-> "application/octet-stream"])

S3DeleteObject(config, key, providerOk) ==
  Send(DeleteObjectCommand(config.name, key), providerOk, key)

S3DeleteObjects(config, keys, providerOk) ==
  DeleteObjectsCall(config.name, keys, providerOk)

S3UploadObject(config, key, body, contentType, providerOk) ==
  Send(PutObjectCommand(config.name, key, body, contentType), providerOk, key)

\* s3-client createFolder: the factory calls it, its body is not in the
\* sources; taken to be the r2 one without the endpoint test
S3CreateFolder(config, folderPath, providerOk) ==
  Send(PutObjectCommand(config.name, NormalizedPath(folderPath), "",
                        "application/x-directory"),
       providerOk, NormalizedPath(folderPath))

S3GeneratePresignedUrl(config, key, expiresIn) ==
  Returned([Bucket |-> config.name, Key |-> key, expiresIn |-> expiresIn], <<>>)

StorageGetObject(config, keys, key, providerOk) ==
  CASE config.provider = "r2" -> R2GetObject(config, keys, key, providerOk)
    [] config.provider = "s3" -> S3GetObject(config, keys, key, providerOk)
    [] OTHER -> Threw(Unsupported, <<>>)

StorageDeleteObject(config, key, providerOk) ==
  CASE config.provider = "r2" -> R2DeleteObject(config, key, providerOk)
    [] config.provider = "s3" -> S3DeleteObject(config, key, providerOk)
    [] OTHER -> Threw(Unsupported, <<>>)

StorageDeleteObjects(config, keys, providerOk) ==
  CASE config.provider = "r2" -> R2DeleteObjects(config, keys, providerOk)
    [] config.provider = "s3" -> S3DeleteObjects(config, keys, providerOk)
    [] OTHER -> Threw(Unsupported, <<>>)

StorageUploadObject(config, key, body, contentType, providerOk) ==
  CASE config.provider = "r2" -> R2UploadObject(config, key, body, contentType, providerOk)
    [] config.provider = "s3" -> S3UploadObject(config, key, body, contentType, providerOk)
    [] OTHER -> Threw(Unsupported, <<>>)

StorageCreateFolder(config, folderPath, providerOk) ==
  CASE config.provider = "r2" -> R2CreateFolder(config, folderPath, providerOk)
    [] config.provider = "s3" -> S3CreateFolder(config, folderPath, providerOk)
    [] OTHER -> Threw(Unsupported, <<>>)

DefaultExpiresIn == 3600

StorageGeneratePresignedUrl(config, key, expiresIn) ==
  CASE config.provider = "r2" -> R2GeneratePresignedUrl(config, key, expiresIn)
    [] config.provider = "s3" -> S3GeneratePresignedUrl(config, key, expiresIn)
    [] OTHER -> Threw(Unsupported, <<>>)

\* what a provider call that was answered does to the bucket
AfterCall(keys, call) ==
  CASE call.op = "PutObject" -> keys \cup {call.input.Key}
    [] call.op = "DeleteObject" -> keys \ {call.input.Key}
    [] call.op = "DeleteObjects" -> AfterDeleteObjects(keys, call.input.Objects)
    [] OTHER -> keys

\* the bucket after a single-call operation with the given outcome
AfterOutcome(keys, outcome) ==
  IF outcome.threw \/ outcome.calls = <<>> THEN keys
  ELSE AfterCall(keys, outcome.calls[1])

(***************************************************************************)
(* The remaining bucket-scoped routes, and the specification in which      *)
(* every route serves one request.                                         *)
(***************************************************************************)
UploadFailed(message, cs) ==
  Response(500, [error |-> "Failed to upload object", message |-> message], cs)

\* POST /api/buckets/{bucketId}/objects (multipart form: file, prefix); file
\* is <<>> when the form has none.  The handler does not read the prefix
\* field: the key it writes is file.name.
UploadHandler(file, bucketId, formFile, formPrefix, providerOk) ==
  LET loaded == LoadBucketConfigs(file)
      found == FindBucket(loaded.value, bucketId)
      filename == formFile[1].name
      uploaded == StorageUploadObject(found[1], filename, formFile[1].body,
                                      formFile[1].type, providerOk)
  IN IF loaded.threw THEN UploadFailed(loaded.error, <<>>)
     ELSE IF found = <<>> THEN BucketNotFound
     ELSE IF formFile = <<>> THEN Response(400, [error |-> "No file provided"], <<>>)
     ELSE IF uploaded.threw THEN UploadFailed(uploaded.error, uploaded.calls)
     ELSE Response(201, [message |-> "File uploaded successfully", filename |-> filename],
                   uploaded.calls)

GetFailed(cs) == Response(500, [error |-> "Failed to get object"], cs)

\* GET /api/buckets/{bucketId}/objects/{key}?presigned; decodeURIComponent
\* leaves keys over the model's alphabet (no "%") as they are
GetObjectHandler(file, keys, bucketId, key, presigned, providerOk) ==
  LET loaded == LoadBucketConfigs(file)
      found == FindBucket(loaded.value, bucketId)
      signed == StorageGeneratePresignedUrl(found[1], key, DefaultExpiresIn)
      object == StorageGetObject(found[1], keys, key, providerOk)
  IN IF loaded.threw THEN GetFailed(<<>>)
     ELSE IF found = <<>> THEN BucketNotFound
     ELSE IF presigned
     THEN (IF signed.threw THEN GetFailed(signed.calls)
           ELSE Response(200, [url |-> signed.value], signed.calls))
     ELSE IF object.threw THEN GetFailed(object.calls)
     ELSE Response(200, [stream |-> object.value.Body,
                         headers |-> [ContentType |-> object.value.ContentType]],
                   object.calls)

DeleteFailed(cs) == Response(500, [error |-> "Failed to delete object"], cs)

\* DELETE /api/buckets/{bucketId}/objects/{key}
DeleteObjectHandler(file, bucketId, key, providerOk) ==
  LET loaded == LoadBucketConfigs(file)
      found == FindBucket(loaded.value, bucketId)
      deleted == StorageDeleteObject(found[1], key, providerOk)
  IN IF loaded.threw THEN DeleteFailed(<<>>)
     ELSE IF found = <<>> THEN BucketNotFound
     ELSE IF deleted.threw THEN DeleteFailed(deleted.calls)
     ELSE Response(200, [message |-> "Successfully deleted", key |-> key], deleted.calls)

\* folderName.replace(/[/\\]/g, '').trim(): over the model's alphabet, the
\* name without its slashes
RECURSIVE Sanitized(_)
Sanitized(name) ==
  IF name = <<>> THEN <<>>
  ELSE (IF Head(name) = "/" THEN <<>> ELSE <<Head(name)>>) \o Sanitized(Tail(name))

CreateFailed(message, cs) ==
  Response(500, [error |-> "Failed to create folder", message |-> message], cs)

\* POST /api/buckets/{bucketId}/folders with body {folderName, currentPrefix}
CreateFolderHandler(file, bucketId, folderName, currentPrefix, providerOk) ==
  LET loaded == LoadBucketConfigs(file)
      found == FindBucket(loaded.value, bucketId)
      sanitizedFolderName == Sanitized(folderName.value)
      folderPath == currentPrefix \o sanitizedFolderName \o Slash
      created == StorageCreateFolder(found[1], folderPath, providerOk)
  IN IF loaded.threw THEN CreateFailed(loaded.error, <<>>)
     ELSE IF found = <<>> THEN BucketNotFound
     ELSE IF MissingOrNotString(folderName)
     THEN Response(400, [error |-> "Folder name is required"], <<>>)
     ELSE IF sanitizedFolderName = <<>>
     THEN Response(400, [error |-> "Invalid folder name"], <<>>)
     ELSE IF created.threw THEN CreateFailed(created.error, created.calls)
     ELSE Response(201, [message |-> "Folder created successfully",
                         folderPath |-> folderPath,
                         folderName |-> sanitizedFolderName], created.calls)

\* the bucket after a handler that issued at most one provider call
AfterResponse(keys, response) ==
  IF response.status \in {200, 201} /\ response.calls # <<>>
  THEN AfterCall(keys, response.calls[1]) ELSE keys

Answer(response) ==
  /\ resp' = response
  /\ calls' = calls \o response.calls
  /\ store' = AfterResponse(store, response)
  /\ pc' = "done"
  /\ UNCHANGED <<bytes, ui, req, token, pages, configFile, folderVars>>

UploadRoute ==
  /\ pc = "route"
  /\ req.op = "upload"
  /\ \E providerOk \in BOOLEAN :
       Answer(UploadHandler(configFile, req.bucketId, req.file, req.prefix, providerOk))

GetObjectRoute ==
  /\ pc = "route"
  /\ req.op = "get"
  /\ \E providerOk \in BOOLEAN :
       Answer(GetObjectHandler(configFile, store, req.bucketId, req.key, req.presigned,
                               providerOk))

DeleteObjectRoute ==
  /\ pc = "route"
  /\ req.op = "delete"
  /\ \E providerOk \in BOOLEAN :
       Answer(DeleteObjectHandler(configFile, req.bucketId, req.key, providerOk))

CreateFolderRoute ==
  /\ pc = "route"
  /\ req.op = "createFolder"
  /\ \E providerOk \in BOOLEAN :
       Answer(CreateFolderHandler(configFile, req.bucketId, req.folderName,
                                  req.currentPrefix, providerOk))

\* handleCreateFolder of the UI, once the folder was created: handleRefresh,
\* that is fetchFiles with maxKeys = pageSize and prefix = currentPrefix
pageSize == 100

RefreshAfterCreate ==
  /\ pc = "done"
  /\ req.op = "createFolder"
  /\ resp.status = 201
  /\ \E providerOk \in BOOLEAN :
       LET r == GetObjectsRoute(configFile, store, req.bucketId, pageSize, NoToken,
                                req.currentPrefix, providerOk)
       IN /\ pages' = IF r.status = 200 THEN <<r.body>> ELSE <<>>
          /\ calls' = calls \o r.calls
  /\ pc' = "listed"
  /\ UNCHANGED <<bytes, ui, store, req, token, resp, configFile, folderVars>>

BucketIds == {R2Config.id, S3Config.id, UnknownId}

MissingConfigFile == [exists |-> FALSE, isArray |-> FALSE, buckets |-> <<>>]

\* an R2 entry without its endpoint
BrokenConfigFile == ConfigFile(<<S3Config, [R2Config EXCEPT !.endpoint = ""]>>)

FormFiles ==
  {<<>>} \cup {<<[name |-> n, type |-> "text/plain", body |-> "bytes"]>> : n \in KeyUniverse}

KeyLists == {SortKeys(S) : S \in SubsetsUpTo(KeyUniverse, MaxRouteKeys)}

RouteRequests ==
  [op : {"list"}, via : {"route"}, bucketId : BucketIds,
   maxKeys : {Absent} \cup 1..MaxMaxKeys, prefix : StringsUpTo(MaxPrefixLen)]
  \cup [op : {"upload"}, bucketId : BucketIds, file : FormFiles,
        prefix : {<<>>, <<"a", "/">>}]
  \cup [op : {"get"}, bucketId : BucketIds, key : KeyUniverse, presigned : BOOLEAN]
  \cup [op : {"delete"}, bucketId : BucketIds, key : KeyUniverse]
  \cup [op : {"deleteBatch"}, bucketId : BucketIds,
        keys : {JsonArray(q) : q \in KeyLists} \cup {JsonUndefined, JsonObject}]
  \cup [op : {"createFolder"}, bucketId : BucketIds,
        folderName : JsonStrings(StringsUpTo(MaxPrefixLen)) \cup {JsonUndefined, JsonNumber},
        currentPrefix : StringsUpTo(MaxPrefixLen)]
  \cup [op : {"deleteFolder"}, bucketId : {R2Config.id, UnknownId},
        folderPath : JsonStrings(StringsUpTo(MaxPrefixLen)) \cup {JsonUndefined, JsonNumber}]

RoutesInit ==
  /\ configFile \in {ValidConfigFile, BrokenConfigFile, MissingConfigFile}
  /\ store \in SubsetsUpTo(KeyUniverse, MaxRouteObjects)
  /\ req \in RouteRequests
  /\ pc = IF req.op = "list" THEN "page" ELSE "route"
  /\ token = NoToken
  /\ pages = <<>>
  /\ calls = <<>>
  /\ resp = NoResponse
  /\ allKeys = <<>>
  /\ batchStart = 0
  /\ before = store
  /\ ui = NoUi
  /\ bytes = NoBytes

RoutesNext ==
  \/ RouteListPage
  \/ UploadRoute
  \/ GetObjectRoute
  \/ DeleteObjectRoute
  \/ DeleteBatchRoute
  \/ CreateFolderRoute
  \/ RefreshAfterCreate
  \/ DeleteFolderRoute
  \/ DeleteFolderList
  \/ DeleteFolderBatch

SpecRoutes == RoutesInit /\ [][RoutesNext]_vars

\* the ids of the entries of the configuration file
ConfiguredIds == {configFile.buckets[i].id : i \in DOMAIN configFile.buckets}

UnknownBucketAnswered == pc = "done" /\ req.bucketId \notin ConfiguredIds

\* C5 as stated: a request whose bucketId matches no configured bucket is
\* answered 404, without any provider call and with the bucket unchanged.
C5_UnknownBucketIs404 ==
  UnknownBucketAnswered =>
    /\ resp.status = 404
    /\ calls = <<>>
    /\ store = before

\* C5 as amended: such a request makes no provider call and leaves the
\* bucket unchanged; it is answered 404 when the configuration file loads,
\* and 500 when loadBucketConfigs throws.
C5_UnknownBucketNoProviderCall ==
  UnknownBucketAnswered =>
    /\ resp.status = IF LoadBucketConfigs(configFile).threw THEN 500 ELSE 404
    /\ calls = <<>>
    /\ store = before

C5_Witness ==
  /\ UnknownBucketAnswered
  /\ req.op = "deleteBatch"
  /\ req.keys.type = "array"
  /\ req.keys.value # <<>>
  /\ SeqToSet(req.keys.value) \subseteq store
  /\ resp.status = 404

FolderCreated == req.op = "createFolder" /\ pc \in {"done", "listed"} /\ resp.status = 201

WritingCalls == SelectSeq(calls, LAMBDA c : c.op \in {"PutObject", "DeleteObject", "DeleteObjects"})

\* the folder pseudo-objects of a listing whose path is the given key
FoldersWithPath(objects, key) ==
  {i \in DOMAIN objects : objects[i].isFolder /\ objects[i].path = key}

\* C11: a create-folder request answered 201 wrote exactly one zero-byte
\* object whose key is currentPrefix + sanitized name + "/", the sanitized
\* name has no "/" and the key ends in exactly one "/", the body carries that
\* folderPath and folderName, and the listing of the parent prefix that
\* follows shows the folder as exactly one folder pseudo-object.
C11_CreateFolderWritesMarkerAndLists ==
  FolderCreated =>
    LET name == Sanitized(req.folderName.value)
        key == req.currentPrefix \o name \o Slash
    IN /\ name # <<>>
       /\ Slash[1] \notin SeqToSet(name)
       /\ Len(WritingCalls) = 1
       /\ WritingCalls[1].op = "PutObject"
       /\ WritingCalls[1].input.Key = key
       /\ WritingCalls[1].input.Body = ""
       /\ store = before \cup {key}
       /\ resp.body.folderPath = key
       /\ resp.body.folderName = name
       /\ (pc = "listed" /\ pages # <<>>)
            => Cardinality(FoldersWithPath(pages[1].objects, key)) = 1

\* the configuration loads and holds the request's bucket
KnownBucket == ~LoadBucketConfigs(configFile).threw /\ req.bucketId \in ConfiguredIds

\* the request's form or body lacks what its route needs
FailsValidation ==
  \/ req.op = "upload" /\ req.file = <<>>
  \/ /\ req.op = "createFolder"
     /\ \/ req.folderName.type # "string"
        \/ SeqToSet(req.folderName.value) \subseteq {"/"}
  \/ /\ req.op = "deleteFolder"
     /\ (req.folderPath.type # "string" \/ req.folderPath.value = <<>>)
  \/ /\ req.op = "deleteBatch"
     /\ (req.keys.type # "array" \/ req.keys.value = <<>>)

\* C16: a request to a known bucket that fails validation (upload without
\* a file; create-folder with a missing, non-string or empty-after-sanitizing
\* folderName; delete-folder with a missing or non-string folderPath;
\* delete-batch with missing, non-array or empty keys) is answered 400 and
\* makes no provider call.
C16_InvalidRequestIs400 ==
  (pc = "done" /\ KnownBucket /\ FailsValidation) =>
    /\ resp.status = 400
    /\ calls = <<>>
    /\ store = before

C16_Witness ==
  /\ pc = "done"
  /\ KnownBucket
  /\ req.op = "createFolder"
  /\ req.folderName = JsonString(<<"/", "/">>)
  /\ resp.status = 400
  /\ store # {}

ObjectServed == req.op = "get" /\ pc = "done" /\ resp.status = 200

\* C17: GET /api/buckets/{bucketId}/objects/{key} answers, when
\* presigned=true, a JSON body with a signed URL and makes no GetObject
\* call; otherwise it fetches the object once and returns its bytes with the
\* headers Content-Type, Content-Length and Content-Disposition.
C17_GetObjectUrlOrStreamWithHeaders ==
  ObjectServed =>
    IF req.presigned
    THEN /\ DOMAIN resp.body = {"url"}
         /\ resp.body.url.Key = req.key
         /\ calls = <<>>
    ELSE /\ Len(calls) = 1
         /\ calls[1] = GetObjectCommand(calls[1].Bucket, req.key)
         /\ resp.body.stream = req.key
         /\ DOMAIN resp.body.headers = {"ContentType", "ContentLength", "ContentDisposition"}

Uploaded == req.op = "upload" /\ pc = "done" /\ resp.status = 201

\* C18: an upload answered 201 made exactly one PutObject call, for the key
\* prefix + file name, and its body carries message, filename and that key.
C18_UploadHonoursPrefix ==
  Uploaded =>
    LET key == req.prefix \o req.file[1].name
    IN /\ Len(calls) = 1
       /\ calls[1].op = "PutObject"
       /\ calls[1].input.Key = key
       /\ store = before \cup {key}
       /\ DOMAIN resp.body = {"message", "filename", "key"}
       /\ resp.body.filename = req.file[1].name
       /\ resp.body.key = key

\* a handler answered after a provider call of its operation had failed
ProviderErrorAnswered ==
  /\ pc = "done"
  /\ resp.calls # <<>>
  /\ resp.status \notin {200, 201}

\* C15: a bucket-scoped route whose operation met a provider error answers
\* with status 500 and a JSON body that carries the provider's error
\* message.
C15_ProviderErrorIs500WithMessage ==
  ProviderErrorAnswered =>
    /\ resp.status = 500
    /\ "message" \in DOMAIN resp.body
    /\ resp.body.message = ProviderError

(***************************************************************************)
(* A delete-folder request served while another request uploads one        *)
(* object to the same bucket.  pages records the upload: its key, and      *)
(* where deleteFolder was when the object was stored.                      *)
(***************************************************************************)
RaceInit ==
  /\ configFile = ValidConfigFile
  /\ store \in SubsetsUpTo(KeyUniverse, MaxRouteObjects)
  /\ req \in [op : {"deleteFolder"}, bucketId : {R2Config.id},
              folderPath : JsonStrings(StringsUpTo(MaxPrefixLen))]
  /\ pc = "route"
  /\ token = NoToken
  /\ pages = <<>>
  /\ calls = <<>>
  /\ resp = NoResponse
  /\ allKeys = <<>>
  /\ batchStart = 0
  /\ before = store
  /\ ui = NoUi
  /\ bytes = NoBytes

\* POST /api/buckets/{bucketId}/objects of another request, answered while
\* deleteFolder is between two of its provider calls
ConcurrentUpload ==
  /\ pc \in {"list", "delete"}
  /\ pages = <<>>
  /\ \E file \in FormFiles \ {<<>>} :
       LET r == UploadHandler(configFile, req.bucketId, file, <<>>, TRUE)
       IN /\ r.status = 201
          /\ store' = AfterResponse(store, r)
          /\ pages' = <<[key |-> r.calls[1].input.Key, during |-> pc]>>
  /\ UNCHANGED <<bytes, ui, req, pc, token, calls, resp, configFile, folderVars>>

RaceNext == DeleteFolderRoute \/ DeleteFolderList \/ DeleteFolderBatch \/ ConcurrentUpload

SpecRace == RaceInit /\ [][RaceNext]_vars

\* deleteFolder returned successfully, and an object was uploaded under the
\* prefix after its listing loop had finished
UploadedAfterListing ==
  /\ FolderDone
  /\ pages # <<>>
  /\ pages[1].during = "delete"
  /\ StartsWith(pages[1].key, NormalizedPath(req.folderPath.value))

AdapterOps ==
  {"listObjects", "getObject", "uploadObject", "deleteObject", "deleteObjects",
   "createFolder", "generatePresignedUrl"}

AdapterInit ==
  /\ configFile = ValidConfigFile
  /\ store \in SubsetsUpTo(KeyUniverse, MaxRouteObjects)
  /\ \/ /\ req \in [op : {"adapter"}, fn : AdapterOps,
                    config : {R2Config, S3Config, [R2Config EXCEPT !.endpoint = ""]},
                    key : KeyUniverse]
        /\ pc = "call"
     \/ /\ req \in [op : {"deleteFolder"}, bucketId : {R2Config.id},
                    folderPath : JsonStrings(StringsUpTo(MaxPrefixLen))]
        /\ pc = "route"
  /\ token = NoToken
  /\ pages = <<>>
  /\ calls = <<>>
  /\ resp = NoResponse
  /\ allKeys = <<>>
  /\ batchStart = 0
  /\ before = store
  /\ ui = NoUi
  /\ bytes = NoBytes

\* the caller gets the outcome of the operation
Finish(fn, outcome, providerOk) ==
  /\ pc = "call"
  /\ req.op = "adapter"
  /\ req.fn = fn
  /\ resp' = outcome
  /\ calls' = calls \o outcome.calls
  /\ store' = AfterOutcome(store, outcome)
  /\ pages' = <<[providerOk |-> providerOk]>>
  /\ pc' = "done"
  /\ UNCHANGED <<bytes, ui, req, token, configFile, folderVars>>

CallListObjects ==
  \E providerOk \in BOOLEAN, maxKeys \in 1..MaxMaxKeys :
    Finish("listObjects",
           StorageListObjects(req.config, store, maxKeys, NoToken, req.key, providerOk),
           providerOk)

CallGetObject ==
  \E providerOk \in BOOLEAN :
    Finish("getObject", StorageGetObject(req.config, store, req.key, providerOk),
           providerOk /\ req.key \in store)

CallUploadObject ==
  \E providerOk \in BOOLEAN :
    Finish("uploadObject",
           StorageUploadObject(req.config, req.key, "bytes", "text/plain", providerOk),
           providerOk)

CallDeleteObject ==
  \E providerOk \in BOOLEAN :
    Finish("deleteObject", StorageDeleteObject(req.config, req.key, providerOk), providerOk)

CallDeleteObjects ==
  \E providerOk \in BOOLEAN :
    Finish("deleteObjects",
           StorageDeleteObjects(req.config, SortKeys(store \cup {req.key}), providerOk),
           providerOk)

CallCreateFolder ==
  \E providerOk \in BOOLEAN :
    Finish("createFolder", StorageCreateFolder(req.config, req.key, providerOk), providerOk)

CallGeneratePresignedUrl ==
  \E providerOk \in BOOLEAN :
    Finish("generatePresignedUrl",
           StorageGeneratePresignedUrl(req.config, req.key, DefaultExpiresIn), providerOk)

AdapterNext ==
  \/ CallListObjects
  \/ CallGetObject
  \/ CallUploadObject
  \/ CallDeleteObject
  \/ CallDeleteObjects
  \/ CallCreateFolder
  \/ CallGeneratePresignedUrl
  \/ DeleteFolderRoute
  \/ DeleteFolderList
  \/ DeleteFolderBatch

SpecAdapter == AdapterInit /\ [][AdapterNext]_vars

AdapterDone == req.op = "adapter" /\ pc = "done"

\* the provider failed a call of the operation
ProviderFailed == AdapterDone /\ calls # <<>> /\ ~pages[1].providerOk

AllDistinct(q) == \A i, j \in DOMAIN q : q[i] = q[j] => i = j

\* C14: an adapter operation whose provider call failed throws that same
\* error to its caller and has issued no other provider call: the failed
\* command was sent once.  For deleteFolder, whose calls are several, the
\* handler gets the provider's error and no command was sent twice.
C14_ProviderErrorRethrownNoRetry ==
  /\ ProviderFailed =>
       /\ resp.threw
       /\ resp.error = ProviderError
       /\ Len(calls) = 1
       /\ store = before
  /\ (AdapterDone /\ resp.threw /\ resp.error = ProviderError) => ProviderFailed
  /\ (FolderFailedAt("ListObjectsV2") \/ FolderFailedAt("DeleteObjects")) =>
       /\ resp.body.message = ProviderError
       /\ AllDistinct(calls)

C14_Witness ==
  /\ ProviderFailed
  /\ req.fn = "uploadObject"
  /\ req.config = S3Config
  /\ resp.threw
  /\ req.key \notin store

(***************************************************************************)
(* Configuration: loadBucketConfigs on drawn configuration files and       *)
(* environments, and GET /api/buckets before and after an edit of one      *)
(* credential field of the file.                                           *)
(***************************************************************************)
\* "r2-" + name and "s3-" + name, for the bucket names of the model
PrefixedId(prefix, name) ==
  CASE prefix = "r2-" /\ name = "media-files" -> "r2-media-files"
    [] prefix = "s3-" /\ name = "my-bucket" -> "s3-my-bucket"
    [] OTHER -> prefix

\* the earlier loadBucketConfigs, which reads the environment: a variable
\* that is not set is "".  Its entries have no displayName.
EnvR2Bucket(env) ==
  [id |-> PrefixedId("r2-", env.CLOUDFLARE_BUCKET_NAME),
   name |-> env.CLOUDFLARE_BUCKET_NAME, displayName |-> "",
   provider |-> "r2", region |-> "", endpoint |-> env.CLOUDFLARE_BUCKET_API,
   accessKeyId |-> env.CLOUDFLARE_ACCESS_KEY_ID,
   secretAccessKey |-> env.CLOUDFLARE_SECRET_ACCESS_KEY]

EnvS3Bucket(env) ==
  [id |-> PrefixedId("s3-", env.S3_UPLOAD_BUCKET),
   name |-> env.S3_UPLOAD_BUCKET, displayName |-> "",
   provider |-> "s3",
   region |-> IF env.S3_UPLOAD_REGION = "" THEN "us-east-1" ELSE env.S3_UPLOAD_REGION,
   endpoint |-> "",
   accessKeyId |-> env.S3_UPLOAD_KEY,
   secretAccessKey |-> env.S3_UPLOAD_SECRET]

LoadBucketConfigsEnv(env) ==
  Returned((IF env.CLOUDFLARE_BUCKET_NAME # "" THEN <<EnvR2Bucket(env)>> ELSE <<>>)
           \o (IF env.S3_UPLOAD_BUCKET # "" THEN <<EnvS3Bucket(env)>> ELSE <<>>),
           <<>>)

SafeBucket_WithKey(bucket) ==
  [id |-> bucket.id, name |-> bucket.name, displayName |-> bucket.displayName,
   provider |-> bucket.provider, accessKeyId |-> bucket.accessKeyId]

\* (bucket) => ({id, name, displayName, provider})
SafeBucket(bucket) ==
  [id |-> bucket.id, name |-> bucket.name, displayName |-> bucket.displayName,
   provider |-> bucket.provider]

\* GET /api/buckets
GetBucketsHandler(file) ==
  LET loaded == LoadBucketConfigs(file)
  IN IF loaded.threw THEN Response(500, [error |-> "Failed to list buckets"], <<>>)
     ELSE Response(200, [i \in DOMAIN loaded.value |-> SafeBucket(loaded.value[i])], <<>>)

FieldNames ==
  {"id", "name", "displayName", "provider", "region", "endpoint", "accessKeyId",
   "secretAccessKey"}

SecretFields == {"accessKeyId", "secretAccessKey", "endpoint", "region"}

\* entry with the fields of F missing
Without(entry, F) == [f \in FieldNames |-> IF f \in F THEN "" ELSE entry[f]]

DrawnEntries ==
  {Without(e, F) : e \in {R2Config, S3Config}, F \in SubsetsUpTo(FieldNames, MaxMissing)}

ConfigFiles ==
  {MissingConfigFile, [exists |-> TRUE, isArray |-> FALSE, buckets |-> <<>>]}
  \cup {ConfigFile(b) : b \in UNION {[1..n -> DrawnEntries] : n \in 0..MaxBuckets}}

EnvNames ==
  {"CLOUDFLARE_BUCKET_NAME", "CLOUDFLARE_BUCKET_API", "CLOUDFLARE_ACCESS_KEY_ID",
   "CLOUDFLARE_SECRET_ACCESS_KEY", "S3_UPLOAD_BUCKET", "S3_UPLOAD_REGION",
   "S3_UPLOAD_KEY", "S3_UPLOAD_SECRET"}

FullEnv ==
  [CLOUDFLARE_BUCKET_NAME |-> "media-files", CLOUDFLARE_BUCKET_API |-> "https://r2.example",
   CLOUDFLARE_ACCESS_KEY_ID |-> "r2-access-key",
   CLOUDFLARE_SECRET_ACCESS_KEY |-> "r2-secret-key",
   S3_UPLOAD_BUCKET |-> "my-bucket", S3_UPLOAD_REGION |-> "us-west-2",
   S3_UPLOAD_KEY |-> "aws-access-key", S3_UPLOAD_SECRET |-> "aws-secret-key"]

Environments ==
  {[v \in EnvNames |-> IF v \in U THEN "" ELSE FullEnv[v]] : U \in SUBSET EnvNames}

ConfigInit ==
  /\ \/ /\ configFile \in ConfigFiles
        /\ req = [op |-> "config", source |-> "file", env |-> FullEnv,
                  original |-> configFile]
     \/ /\ configFile = MissingConfigFile
        /\ req \in [op : {"config"}, source : {"env"}, env : Environments,
                    original : {MissingConfigFile}]
  /\ store = {}
  /\ pc = "idle"
  /\ token = NoToken
  /\ pages = <<>>
  /\ calls = <<>>
  /\ resp = NoResponse
  /\ allKeys = <<>>
  /\ batchStart = 0
  /\ before = {}
  /\ ui = NoUi
  /\ bytes = NoBytes

\* a call of loadBucketConfigs (config/buckets.json)
LoadConfigs ==
  /\ pc = "idle"
  /\ req.op = "config"
  /\ req.source = "file"
  /\ pages = <<>>
  /\ resp' = LoadBucketConfigs(configFile)
  /\ pc' = "loaded"
  /\ UNCHANGED <<bytes, ui, store, req, token, pages, calls, configFile, folderVars>>

\* a call of the loadBucketConfigs that reads the environment
LoadEnvConfigs ==
  /\ pc = "idle"
  /\ req.op = "config"
  /\ req.source = "env"
  /\ resp' = LoadBucketConfigsEnv(req.env)
  /\ pc' = "loaded"
  /\ UNCHANGED <<bytes, ui, store, req, token, pages, calls, configFile, folderVars>>

\* GET /api/buckets; the caller keeps the responses in pages
GetBucketsRoute ==
  /\ pc = "idle"
  /\ req.op = "config"
  /\ req.source = "file"
  /\ Len(pages) < 2
  /\ resp' = GetBucketsHandler(configFile)
  /\ pages' = Append(pages, resp')
  /\ UNCHANGED <<bytes, ui, store, req, pc, token, calls, configFile, folderVars>>

\* between two requests, one credential field of one entry of the file is
\* given another value, or removed
EditSecret ==
  /\ pc = "idle"
  /\ req.op = "config"
  /\ Len(pages) = 1
  /\ configFile = req.original
  /\ \E i \in DOMAIN configFile.buckets, f \in SecretFields, v \in {"", "changed"} :
       /\ configFile.buckets[i][f] # v
       /\ configFile' = [configFile EXCEPT !.buckets[i][f] = v]
  /\ UNCHANGED <<bytes, ui, store, req, pc, token, pages, calls, resp, folderVars>>

ConfigNext == LoadConfigs \/ LoadEnvConfigs \/ GetBucketsRoute \/ EditSecret

SpecConfig == ConfigInit /\ [][ConfigNext]_vars

PublicFields == {"id", "name", "displayName", "provider"}

NoCredentialIn(response) ==
  response.status = 200 =>
    \A i \in DOMAIN response.body : DOMAIN response.body[i] \subseteq PublicFields

AskedTwice == req.op = "config" /\ Len(pages) = 2

\* C6 as stated: two configurations that differ only in accessKeyId,
\* secretAccessKey, endpoint or region get identical responses from
\* GET /api/buckets, and no response field carries a credential.
C6_ResponseIgnoresCredentials ==
  /\ AskedTwice => pages[1] = pages[2]
  /\ \A i \in DOMAIN pages : NoCredentialIn(pages[i])

\* C6 as amended: two configurations that both load and differ only in
\* accessKeyId, secretAccessKey, endpoint or region get identical
\* responses, and no response field carries a credential.
C6_ValidConfigsSameResponse ==
  /\ (AskedTwice /\ pages[1].status = 200 /\ pages[2].status = 200)
       => pages[1] = pages[2]
  /\ \A i \in DOMAIN pages : NoCredentialIn(pages[i])

C6_Witness ==
  /\ AskedTwice
  /\ pages[1].status = 200
  /\ pages[2].status = 200
  /\ Len(pages[2].body) = 2
  /\ configFile # req.original

\* the fields the README's table marks as required
IsComplete(bucket) ==
  /\ bucket.id # ""
  /\ bucket.name # ""
  /\ bucket.displayName # ""
  /\ bucket.provider # ""
  /\ bucket.accessKeyId # ""
  /\ bucket.secretAccessKey # ""
  /\ (bucket.provider = "r2" => bucket.endpoint # "")

\* C7: loadBucketConfigs throws whenever an entry lacks a required field
\* (id, name, displayName, provider, accessKeyId, secretAccessKey) or is an
\* R2 bucket without endpoint, and every entry of a list it returns is
\* complete.
C7_ThrowsOnIncompleteEntry ==
  (req.op = "config" /\ pc = "loaded") =>
    /\ ~resp.threw => \A i \in DOMAIN resp.value : IsComplete(resp.value[i])
    /\ (req.source = "file"
          /\ \E i \in DOMAIN configFile.buckets : ~IsComplete(configFile.buckets[i]))
         => resp.threw

(***************************************************************************)
(* Properties of listing (SpecList).                                       *)
(***************************************************************************)
Last(q) == q[Len(q)]

\* the latest listing call was answered and its page is the last of pages
ListedOk == pages # <<>> /\ Len(calls) = Len(pages)

ListsR2 == req.op = "list" /\ req.bucketId = R2Config.id

\* what the provider answered to the i-th listing call
ProviderResponse(i) == ListObjectsV2(store, calls[i].input)

FoldersAt(objects, path) ==
  {j \in DOMAIN objects :
     objects[j].isFolder /\ objects[j].path = path /\ objects[j].size = 0}

FilesAt(objects, path) ==
  {j \in DOMAIN objects : ~objects[j].isFolder /\ objects[j].path = path}

\* C3: every listObjects result holds exactly one folder pseudo-object
\* (isFolder, size 0, path = the common prefix) for each common prefix the
\* provider returned for that page, and no other folder object.
C3_OneFolderPerCommonPrefix ==
  (ListedOk /\ ListsR2) =>
    LET objects == Last(pages).objects
        commonPrefixes == ProviderResponse(Len(calls)).CommonPrefixes
    IN /\ \A i \in DOMAIN commonPrefixes :
            Cardinality(FoldersAt(objects, commonPrefixes[i])) = 1
       /\ Cardinality({j \in DOMAIN objects : objects[j].isFolder})
            = Len(commonPrefixes)

\* the path (full key) an adapter's object stands for: s3 objects carry the
\* key in name and have no path
KeyOf(o) == IF "path" \in DOMAIN o THEN o.path ELSE o.name

IsFile(o) == IF "isFolder" \in DOMAIN o THEN ~o.isFolder ELSE TRUE

RECURSIVE FileKeys(_)
FileKeys(objects) ==
  IF objects = <<>> THEN <<>>
  ELSE (IF IsFile(Head(objects)) THEN <<KeyOf(Head(objects))>> ELSE <<>>)
       \o FileKeys(Tail(objects))

RECURSIVE AllFileKeys(_)
AllFileKeys(results) ==
  IF results = <<>> THEN <<>>
  ELSE FileKeys(Head(results).objects) \o AllFileKeys(Tail(results))

NoDuplicates(q) == \A i, j \in DOMAIN q : q[i] = q[j] => i = j

\* the file objects of the scope a listing command addresses
FilesInScope(keys, cmd) ==
  IF cmd.Delimiter = <<>> THEN {k \in keys : StartsWith(k, cmd.Prefix)}
  ELSE {k \in keys :
          /\ StartsWith(k, cmd.Prefix)
          /\ IndexOf(SubSeq(k, Len(cmd.Prefix) + 1, Len(k)), cmd.Delimiter) = -1
          /\ ~EndsWith(k, cmd.Delimiter)}

PagedThrough == pc = "done" /\ ListedOk

\* C4: listObjects hands on the provider's token and truncation flag, so a
\* caller that follows the tokens from a token-less first call until
\* isTruncated = false has received every file object of the listed scope
\* exactly once, in pages of at most maxKeys entries, all but the last
\* truncated.
C4_PagingYieldsEveryFileOnce ==
  /\ ListedOk =>
       /\ Last(pages).nextContinuationToken
            = ProviderResponse(Len(calls)).NextContinuationToken
       /\ Last(pages).isTruncated = ProviderResponse(Len(calls)).IsTruncated
       /\ Len(Last(pages).objects) <= req.maxKeys
       /\ calls[1].input.ContinuationToken = NoToken
       /\ \A i \in 2..Len(calls) :
            /\ pages[i - 1].isTruncated
            /\ calls[i].input.ContinuationToken = pages[i - 1].nextContinuationToken
  /\ PagedThrough =>
       /\ ~Last(pages).isTruncated
       /\ NoDuplicates(AllFileKeys(pages))
       /\ SeqToSet(AllFileKeys(pages)) = FilesInScope(store, calls[1].input)

C4_Witness ==
  /\ PagedThrough
  /\ ListsR2
  /\ Len(pages) = 3
  /\ Len(AllFileKeys(pages)) = 3

\* C9: a listing requested through the route with prefix = P holds only
\* objects whose path starts with P, and no file below the next "/".
C9_RouteListingScopedToPrefix ==
  (ListedOk /\ req.via = "route") =>
    \A i \in DOMAIN Last(pages).objects :
      LET o == Last(pages).objects[i]
      IN /\ StartsWith(KeyOf(o), req.prefix)
         /\ IsFile(o) =>
              IndexOf(SubSeq(KeyOf(o), Len(req.prefix) + 1, Len(KeyOf(o))), Slash) = -1

\* the zero-byte marker of the listed prefix: the key that is the prefix
\* itself and ends in "/"
IsPrefixMarker(k, prefix) == k = prefix /\ EndsWith(k, Slash)

\* C10: no file object returned by listObjects has a path ending in "/",
\* and every key of the provider's contents other than the marker of the
\* listed prefix is returned as exactly one file object with path = key.
C10_MarkerNeverListedAsFile ==
  (ListedOk /\ ListsR2) =>
    LET objects == Last(pages).objects
        contents == ProviderResponse(Len(calls)).Contents
        prefix == Last(calls).input.Prefix
    IN /\ \A j \in DOMAIN objects :
            ~objects[j].isFolder => ~EndsWith(objects[j].path, Slash)
       /\ \A i \in DOMAIN contents :
            ~IsPrefixMarker(contents[i], prefix) =>
               Cardinality(FilesAt(objects, contents[i])) = 1
       /\ Cardinality({j \in DOMAIN objects : ~objects[j].isFolder})
            = Cardinality({i \in DOMAIN contents : ~IsPrefixMarker(contents[i], prefix)})

C10_Witness ==
  /\ ListedOk
  /\ ListsR2
  /\ \E i \in DOMAIN ProviderResponse(Len(calls)).Contents :
       IsPrefixMarker(ProviderResponse(Len(calls)).Contents[i], Last(calls).input.Prefix)
  /\ \E j \in DOMAIN Last(pages).objects : ~Last(pages).objects[j].isFolder

RECURSIVE ListedKeys(_)
ListedKeys(objects) ==
  IF objects = <<>> THEN <<>>
  ELSE <<KeyOf(Head(objects))>> \o ListedKeys(Tail(objects))

\* C8: the storage client gives the same result for provider r2 and for
\* provider s3 on identical bucket contents and arguments: the page a
\* listObjects call returned lists the same keys, with the same token and
\* truncation flag, as the page either provider's adapter returns for the
\* same maxKeys, token and prefix.
C8_ProvidersGiveSameResult ==
  (ListedOk /\ req.via = "adapter") =>
    \A config \in {R2Config, S3Config} :
      LET other == StorageListObjects(config, store, req.maxKeys,
                     Last(calls).input.ContinuationToken, req.prefix, TRUE).value
      IN /\ ListedKeys(other.objects) = ListedKeys(Last(pages).objects)
         /\ other.isTruncated = Last(pages).isTruncated
         /\ other.nextContinuationToken = Last(pages).nextContinuationToken


(* ------------------------------------------------------------------ *)
(* The BucketManager component (SpecUi)                                *)
(* ------------------------------------------------------------------ *)

MaxUiObjects == 2

\* what the user may have typed into the confirmation input
ConfirmationTexts == {"", "DELETE", "delete"}

\* encodeURIComponent(undefined), JSON.stringify of a missing field
Undefined == <<"undefined">>

NoRequest == [kind |-> "none", bucketId |-> "", keys |-> <<>>]

\* a fetch of the component: which endpoint of which bucket, with which keys
Fetch(kind, bucketId, keys) == [kind |-> kind, bucketId |-> bucketId, keys |-> keys]

\* file.isFolder, falsy where the listing gave no such field
IsFolder(file) == "isFolder" \in DOMAIN file /\ file.isFolder

\* file.path
PathOf(file) == IF "path" \in DOMAIN file THEN file.path ELSE Undefined

\* file.path || file.name
PathOrName(file) ==
  IF "path" \in DOMAIN file /\ file.path # <<>> THEN file.path ELSE file.name

\* isImageFile(file.type) || isVideoFile(file.type)
IsMedia(file) == file.type \in {"image/png", "video/mp4"}

\* fetchFiles: the objects of the listing route's answer become the files;
\* a listed type comes from the extension of the key, which Chars cannot
\* spell: the files of `images` stand for keys with the extension of an image
FormattedData(objects, images) ==
  [i \in DOMAIN objects |->
     IF objects[i].id \in images /\ ~IsFolder(objects[i])
     THEN [objects[i] EXCEPT !.type = "image/png"]
     ELSE objects[i]]

\* sortedFiles: folders first, each group by name (the sort is stable)
ByName(q) ==
  LET names == SortKeys({q[i].name : i \in DOMAIN q})
      Same(n) == SelectSeq(q, LAMBDA f : f.name = n)
      F[i \in 0..Len(names)] == IF i = 0 THEN <<>> ELSE F[i - 1] \o Same(names[i])
  IN F[Len(names)]

SortedFiles(files) ==
  ByName(SelectSeq(files, IsFolder)) \o
  ByName(SelectSeq(files, LAMBDA f : ~IsFolder(f)))

\* files.filter((file) => selectedFiles.includes(file.id))
SelectedItems(files, selectedFiles) ==
  SelectSeq(files, LAMBDA f : f.id \in selectedFiles)

HasSelectedFolders(files, selectedFiles) ==
  \E i \in DOMAIN files : files[i].id \in selectedFiles /\ IsFolder(files[i])

\* disabled of the dialog's action button
ConfirmDisabled_TextIgnored(u) == u.isDeleting

ConfirmDisabled_WhileDeleting(u) ==
  /\ HasSelectedFolders(u.files, u.selectedFiles)
  /\ u.deleteConfirmationText # "DELETE"

ConfirmDisabled(u) ==
  \/ u.isDeleting
  \/ /\ HasSelectedFolders(u.files, u.selectedFiles)
     /\ u.deleteConfirmationText # "DELETE"

\* the fetches handleDelete goes through, in its order
DeleteFetches(u) ==
  LET selectedItems == SelectedItems(SortedFiles(u.files), u.selectedFiles)
      filesToDelete == SelectSeq(selectedItems, LAMBDA f : ~IsFolder(f))
      foldersToDelete == SelectSeq(selectedItems, IsFolder)
      keysToDelete == [i \in DOMAIN filesToDelete |-> PathOrName(filesToDelete[i])]
  IN (IF Len(filesToDelete) > 0
      THEN <<Fetch("delete-batch", u.bucketId, keysToDelete)>> ELSE <<>>) \o
     [i \in DOMAIN foldersToDelete |->
        Fetch("delete-folder", u.bucketId, <<PathOf(foldersToDelete[i])>>)]

\* GET .../objects/${encodeURIComponent(filePath)}?presigned=true
Presigned(u, filePath) == Fetch("presigned", u.bucketId, <<filePath>>)

UiInit ==
  /\ configFile = ValidConfigFile
  /\ store \in SubsetsUpTo(KeyUniverse, MaxUiObjects)
  /\ req = [op |-> "ui"]
  /\ pc = "mounted"
  /\ token = NoToken
  /\ pages = <<>>
  /\ calls = <<>>
  /\ resp = NoResponse
  /\ allKeys = <<>>
  /\ batchStart = 0
  /\ before = store
  /\ bytes = NoBytes
  /\ \E bucketId \in {R2Config.id, S3Config.id} :
       LET r == GetObjectsRoute(configFile, store, bucketId, pageSize, NoToken, <<>>, TRUE)
       IN \E images \in SUBSET {r.body.objects[i].id : i \in DOMAIN r.body.objects} :
            ui = [bucketId |-> bucketId,
                  files |-> FormattedData(r.body.objects, images),
                  selectedFiles |-> {},
                  isDeleteDialogOpen |-> FALSE,
                  isDeleting |-> FALSE,
                  deleteConfirmationText |-> "",
                  previewFile |-> <<>>,
                  pending |-> <<>>,
                  sent |-> NoRequest]

UiFrame == UNCHANGED <<bytes, store, req, pc, token, pages, calls, resp, configFile, folderVars>>

\* the checkbox of a row
HandleSelectFile ==
  /\ ui # NoUi
  /\ \E i \in DOMAIN ui.files :
       LET fileId == ui.files[i].id
       IN ui' = [ui EXCEPT !.selectedFiles =
                             IF fileId \in @ THEN @ \ {fileId} ELSE @ \cup {fileId},
                           !.sent = NoRequest]
  /\ UiFrame

\* the checkbox of the table head
HandleSelectAll ==
  /\ ui # NoUi
  /\ ui.files # <<>>
  /\ \E checked \in BOOLEAN :
       ui' = [ui EXCEPT !.selectedFiles =
                          IF checked THEN {ui.files[i].id : i \in DOMAIN ui.files} ELSE {},
                        !.sent = NoRequest]
  /\ UiFrame

\* disabled of the Delete button of the toolbar
DeleteButtonDisabled(u) == u.selectedFiles = {} \/ u.isDeleting

\* the Delete button of the toolbar
ToolbarDelete ==
  /\ ui # NoUi
  /\ ~DeleteButtonDisabled(ui)
  /\ ~ui.isDeleteDialogOpen
  /\ ui' = [ui EXCEPT !.isDeleteDialogOpen = TRUE, !.sent = NoRequest]
  /\ UiFrame

\* Delete and Delete Folder of a row's menu
RowDelete ==
  /\ ui # NoUi
  /\ ~ui.isDeleteDialogOpen
  /\ \E i \in DOMAIN ui.files :
       ui' = [ui EXCEPT !.selectedFiles = {ui.files[i].id},
                        !.isDeleteDialogOpen = TRUE,
                        !.sent = NoRequest]
  /\ UiFrame

\* onChange of the confirmation input
TypeConfirmation ==
  /\ ui # NoUi
  /\ ui.isDeleteDialogOpen
  /\ HasSelectedFolders(ui.files, ui.selectedFiles)
  /\ ~ui.isDeleting
  /\ \E text \in ConfirmationTexts \ {ui.deleteConfirmationText} :
       ui' = [ui EXCEPT !.deleteConfirmationText = text, !.sent = NoRequest]
  /\ UiFrame

\* onOpenChange(false) of the dialog: Cancel, Escape
OnOpenChange ==
  /\ ui # NoUi
  /\ ui.isDeleteDialogOpen
  /\ ~ui.isDeleting
  /\ ui' = [ui EXCEPT !.isDeleteDialogOpen = FALSE,
                      !.deleteConfirmationText = "",
                      !.sent = NoRequest]
  /\ UiFrame

\* the dialog's action button: handleDelete starts; whether the dialog
\* closes itself on the click is the dialog library's business
ConfirmDelete ==
  /\ ui # NoUi
  /\ ui.isDeleteDialogOpen
  /\ ~ConfirmDisabled(ui)
  /\ \E closes \in BOOLEAN :
       ui' = [ui EXCEPT !.isDeleting = TRUE,
                        !.pending = DeleteFetches(ui),
                        !.isDeleteDialogOpen = ~closes,
                        !.deleteConfirmationText = IF closes THEN "" ELSE @,
                        !.sent = NoRequest]
  /\ UiFrame

\* handleDelete: its next fetch; an answer that is not ok ends it in its catch
DeleteFetch ==
  /\ ui # NoUi
  /\ ui.isDeleting
  /\ ui.pending # <<>>
  /\ \E ok \in BOOLEAN :
       ui' = [ui EXCEPT !.sent = Head(ui.pending),
                        !.pending = IF ok THEN Tail(@) ELSE <<>>,
                        !.isDeleting = ok]
  /\ UiFrame

\* handleDelete: every fetch was answered ok
DeleteDone ==
  /\ ui # NoUi
  /\ ui.isDeleting
  /\ ui.pending = <<>>
  /\ ui' = [ui EXCEPT !.files = SelectSeq(@, LAMBDA f : f.id \notin ui.selectedFiles),
                      !.selectedFiles = {},
                      !.isDeleteDialogOpen = FALSE,
                      !.deleteConfirmationText = "",
                      !.isDeleting = FALSE,
                      !.sent = NoRequest]
  /\ UiFrame

\* the Download button of the toolbar: one file selected
ToolbarDownload ==
  /\ ui # NoUi
  /\ \E i \in DOMAIN ui.files :
       /\ ui.selectedFiles = {ui.files[i].id}
       /\ ~IsFolder(ui.files[i])
       /\ ui' = [ui EXCEPT !.sent = Presigned(ui, PathOrName(ui.files[i]))]
  /\ UiFrame

\* Download of a row's menu
RowDownload ==
  /\ ui # NoUi
  /\ \E i \in DOMAIN ui.files :
       /\ ~IsFolder(ui.files[i])
       /\ ui' = [ui EXCEPT !.sent = Presigned(ui, PathOf(ui.files[i]))]
  /\ UiFrame

\* the CopyUrlButton of a row
RowCopyUrl ==
  /\ ui # NoUi
  /\ \E i \in DOMAIN ui.files :
       /\ ~IsFolder(ui.files[i])
       /\ ui' = [ui EXCEPT !.sent = Presigned(ui, PathOrName(ui.files[i]))]
  /\ UiFrame

HandlePreview ==
  /\ ui # NoUi
  /\ \E i \in DOMAIN ui.files :
       LET file == ui.files[i]
       IN ui' = [ui EXCEPT !.previewFile = <<file>>,
                           !.sent = IF ~IsFolder(file) /\ IsMedia(file)
                                    THEN Presigned(ui, PathOrName(file))
                                    ELSE NoRequest]
  /\ UiFrame

\* Download and the CopyUrlButton of the preview dialog
PreviewDownload ==
  /\ ui # NoUi
  /\ ui.previewFile # <<>>
  /\ ~IsFolder(ui.previewFile[1])
  /\ ui' = [ui EXCEPT !.sent = Presigned(ui, PathOrName(ui.previewFile[1]))]
  /\ UiFrame

UiNext ==
  \/ HandleSelectFile
  \/ HandleSelectAll
  \/ ToolbarDelete
  \/ RowDelete
  \/ TypeConfirmation
  \/ OnOpenChange
  \/ ConfirmDelete
  \/ DeleteFetch
  \/ DeleteDone
  \/ ToolbarDownload
  \/ RowDownload
  \/ RowCopyUrl
  \/ HandlePreview
  \/ PreviewDownload

SpecUi == UiInit /\ [][UiNext]_vars


(* ------------------------------------------------------------------ *)
(* Properties of the component (SpecUi)                                *)
(* ------------------------------------------------------------------ *)

\* the objects the component was given by a listing: those it shows and
\* the one it previews
ListedObjects == SeqToSet(ui.files) \cup SeqToSet(ui.previewFile)

\* the key under which the bucket holds a listed object
ObjectPath(file) == IF "path" \in DOMAIN file THEN file.path ELSE file.name

\* C19: every key the component sends to a storage endpoint (the keys of a
\* batch delete, the folderPath of a folder delete, the key of a download,
\* preview or copy-URL request) is the path of a listed object and never its
\* display id.
C19_UiSendsListedPaths ==
  ui # NoUi =>
    \A i \in DOMAIN ui.sent.keys :
      /\ ui.sent.keys[i] \in {ObjectPath(f) : f \in ListedObjects}
      /\ ui.sent.keys[i] \notin {f.id : f \in ListedObjects}

\* a request that deletes: the batch delete or the delete of a folder
IsDelete(request) == request.kind \in {"delete-batch", "delete-folder"}

\* the user confirms in the open dialog, with "DELETE" typed where the
\* selection holds a folder
Confirmation ==
  /\ ui.isDeleteDialogOpen
  /\ ~ui.isDeleting
  /\ HasSelectedFolders(ui.files, ui.selectedFiles) => ui.deleteConfirmationText = "DELETE"

\* C20: the component sends a delete request (batch or folder) only after the
\* user confirmed in the delete dialog, and where the selection holds a folder
\* only if the confirmation text is "DELETE" at the moment of confirmation: a
\* delete is sent only as the next fetch of a running handleDelete, and a
\* handleDelete starts, and gets the fetches it will send, only by such a
\* confirmation.
C20_DeleteOnlyAfterConfirmation ==
  [][/\ IsDelete(ui'.sent) =>
          ui.isDeleting /\ ui.pending # <<>> /\ ui'.sent = Head(ui.pending)
     /\ (ui'.isDeleting /\ ~ui.isDeleting) => Confirmation
     /\ (/\ ui'.pending \notin {<<>>, ui.pending}
         /\ ui.pending # <<>> => ui'.pending # Tail(ui.pending)) =>
          Confirmation /\ ui'.pending = DeleteFetches(ui)]_vars

\* a folder's delete has been sent, by a handleDelete still running
C20_Witness ==
  /\ ui # NoUi
  /\ ui.sent.kind = "delete-folder"
  /\ ui.isDeleting


(* ------------------------------------------------------------------ *)
(* Upload, presigned URL and what the URL gives (SpecPresign)          *)
(* ------------------------------------------------------------------ *)

\* the bodies a caller uploads
BodyUniverse == {"body-1", "body-2"}

\* what a bucket holds under a key it does not hold
NoSuchKey == "NoSuchKey"

BucketNames == {R2Config.name, S3Config.name}

PresignKeys == StringsUpTo(1) \ {<<>>}

\* an expiry a caller passes explicitly
ExplicitExpiresIn == 60

\* what a provider call that was answered does to the bytes of the buckets
BytesAfterCall(held, call) ==
  CASE call.op = "PutObject" ->
         [held EXCEPT ![call.Bucket][call.input.Key] = call.input.Body]
    [] call.op = "DeleteObject" ->
         [held EXCEPT ![call.Bucket][call.input.Key] = NoSuchKey]
    [] OTHER -> held

BytesAfterOutcome(held, outcome) ==
  IF outcome.threw \/ outcome.calls = <<>> THEN held
  ELSE BytesAfterCall(held, outcome.calls[1])

\* the keys a bucket holds
HeldKeys(held, bucket) == {k \in DOMAIN held[bucket] : held[bucket][k] # NoSuchKey}

\* generatePresignedUrl: async (key, expiresIn = 3600)
ClientGeneratePresignedUrl(config, key, expiresIn) ==
  StorageGeneratePresignedUrl(config, key,
                              IF expiresIn = Absent THEN DefaultExpiresIn ELSE expiresIn)

\* a GET of a presigned URL: the provider serves the object the URL was signed for
Dereference(held, url) == held[url.Bucket][url.Key]

PresignInit ==
  /\ configFile = ValidConfigFile
  /\ bytes \in [BucketNames -> [PresignKeys -> {"body-1", NoSuchKey}]]
  /\ req \in [op : {"presign"}, config : {R2Config, S3Config, [R2Config EXCEPT !.endpoint = ""]},
              key : PresignKeys, expiresIn : {Absent}]
  /\ store = HeldKeys(bytes, req.config.name)
  /\ pc = "call"
  /\ token = NoToken
  /\ pages = <<>>
  /\ calls = <<>>
  /\ resp = NoResponse
  /\ allKeys = <<>>
  /\ batchStart = 0
  /\ before = store
  /\ ui = NoUi

PresignFrame == UNCHANGED <<ui, token, configFile, folderVars>>

\* the caller uploads through its client; pages keeps the last upload to
\* req.key that succeeded and was not written over since
PresignUpload ==
  /\ req.op = "presign"
  /\ \E key \in PresignKeys, body \in BodyUniverse, providerOk \in BOOLEAN :
       LET outcome == StorageUploadObject(req.config, key, body, "text/plain", providerOk)
       IN /\ bytes' = BytesAfterOutcome(bytes, outcome)
          /\ calls' = outcome.calls
          /\ pages' = IF key = req.key /\ ~outcome.threw
                      THEN <<[key |-> key, body |-> body]>> ELSE pages
  /\ store' = HeldKeys(bytes', req.config.name)
  /\ pc' = "uploaded"
  /\ UNCHANGED <<req, resp>>
  /\ PresignFrame

\* someone else writes to a bucket: a put or a delete of a key
OtherWrite ==
  /\ req.op = "presign"
  /\ \E bucket \in BucketNames, key \in PresignKeys, body \in BodyUniverse \cup {NoSuchKey} :
       /\ bytes[bucket][key] # body
       /\ bytes' = [bytes EXCEPT ![bucket][key] = body]
       /\ pages' = IF bucket = req.config.name /\ key = req.key THEN <<>> ELSE pages
  /\ store' = HeldKeys(bytes', req.config.name)
  /\ UNCHANGED <<req, pc, calls, resp>>
  /\ PresignFrame

\* the caller asks its client for a URL of req.key, with or without an expiry
PresignGenerate ==
  /\ req.op = "presign"
  /\ \E expiresIn \in {Absent, ExplicitExpiresIn} :
       /\ req' = [req EXCEPT !.expiresIn = expiresIn]
       /\ resp' = ClientGeneratePresignedUrl(req.config, req.key, expiresIn)
  /\ calls' = resp'.calls
  /\ pc' = "signed"
  /\ UNCHANGED <<bytes, store, pages>>
  /\ PresignFrame

\* the URL is dereferenced
PresignFetch ==
  /\ req.op = "presign"
  /\ pc = "signed"
  /\ ~resp.threw
  /\ resp' = Returned(Dereference(bytes, resp.value), <<>>)
  /\ pc' = "fetched"
  /\ UNCHANGED <<bytes, store, req, pages, calls>>
  /\ PresignFrame

PresignNext == PresignUpload \/ OtherWrite \/ PresignGenerate \/ PresignFetch

SpecPresign == PresignInit /\ [][PresignNext]_vars

\* C21: after uploadObject(key, body) succeeded and with no write to that key
\* since, the presigned URL generated for the key designates the client's
\* bucket and that key, and dereferencing it gives the uploaded body; a URL
\* asked for without an expiry is issued for 3600 seconds.
C21_PresignedUrlGivesUploadedBody ==
  /\ (pc = "signed" /\ ~resp.threw) =>
        /\ resp.value.Bucket = req.config.name
        /\ resp.value.Key = req.key
        /\ req.expiresIn = Absent => resp.value.expiresIn = 3600
  /\ (pc = "fetched" /\ pages # <<>>) => resp.value = pages[1].body

C21_Witness ==
  /\ pc = "fetched"
  /\ pages # <<>>
  /\ pages[1].body = "body-2"
  /\ resp.value = "body-2"
  /\ req.expiresIn = Absent


(* ------------------------------------------------------------------ *)
(* deleteFolder: its two phases and its scope                          *)
(* ------------------------------------------------------------------ *)

\* the scheduler lets a request that can go on go on
SpecFolderFair == SpecFolder /\ WF_vars(FolderNext)

\* the provider calls of the request of the given kind, as positions in calls
CallsOf(op) == {i \in DOMAIN calls : calls[i].op = op}

\* C22: deleteFolder is two-phase: each listing call carries the token of the
\* previous listing response (none on the first), listing goes on exactly
\* while the response carries a token, no delete call is issued before the
\* listing response without a token, and deleteFolder terminates.
C22_DeleteFolderTwoPhase ==
  /\ [][(pc = "list" /\ Len(calls') = Len(calls) + 1) =>
          LET command == calls'[Len(calls')]
          IN /\ command.op = "ListObjectsV2"
             /\ command.input.ContinuationToken = token
             /\ Len(calls) = 0 => command.input.ContinuationToken = NoToken
             /\ pc' = "list" <=> token' # NoToken /\ resp' = resp
             /\ pc' = "delete" <=> token' = NoToken /\ resp' = resp]_vars
  /\ [](/\ \A i \in CallsOf("DeleteObjects"), j \in CallsOf("ListObjectsV2") : j < i
        /\ CallsOf("DeleteObjects") # {} => pc \in {"delete", "done"} /\ token = NoToken)
  /\ <>(pc = "done")

\* a folder deleted after a listing of two pages
C22_Witness ==
  /\ FolderDone
  /\ Cardinality(CallsOf("ListObjectsV2")) >= 2
  /\ CallsOf("DeleteObjects") # {}
  /\ calls[2].input.ContinuationToken # NoToken

\* the folder named by the request, as a prefix: its path and one "/" at its end
FolderPrefix ==
  LET path == req.folderPath.value
  IN IF path[Len(path)] = "/" THEN path ELSE path \o <<"/">>

InFolder(key) == Len(key) >= Len(FolderPrefix) /\ SubSeq(key, 1, Len(FolderPrefix)) = FolderPrefix

\* C23: deleteFolder leaves every object outside the folder unchanged: each
\* key it passes to a delete call starts with the normalized prefix, so an
\* object whose key merely begins with the folder's name is never deleted.
C23_DeleteFolderKeepsOutside ==
  (req.op = "deleteFolder" /\ calls # <<>>) =>
    /\ \A i \in CallsOf("DeleteObjects") :
         \A n \in DOMAIN calls[i].input.Objects : InFolder(calls[i].input.Objects[n])
    /\ \A key \in before : ~InFolder(key) => key \in store

\* a folder was deleted next to an object whose key begins with its name
C23_Witness ==
  /\ FolderDone
  /\ store # before
  /\ \E key \in store :
       /\ ~InFolder(key)
       /\ Len(key) > Len(req.folderPath.value)
       /\ SubSeq(key, 1, Len(req.folderPath.value)) = req.folderPath.value
       /\ req.folderPath.value = <<"a">>


(* ------------------------------------------------------------------ *)
(* BucketManagerAdapter with FilePagination and the selection of       *)
(* BucketManager (SpecNav).  The listing route is the environment: it  *)
(* answers a request page by page, and the token that comes with a     *)
(* page stands for the page after it.  Listings that fail leave the    *)
(* state of the component as it is and are left out.                   *)
(* ------------------------------------------------------------------ *)

MaxPages == 3
MaxInFlight == 2
MaxHistory == 2
MaxPageHistory == 3
MaxSelected == 1

\* the folders the listings show: "a/" at the root, "a/a/" in "a/"
NavFolders == {<<"a", "/">>, <<"a", "/", "a", "/">>}

NavBuckets == {R2Config.id, S3Config.id}

\* how many pages the listing of a prefix of a bucket has
PageCount(bucketId, prefix) ==
  IF prefix = <<>> THEN MaxPages
  ELSE IF prefix = <<"a", "/">> /\ bucketId = R2Config.id THEN MaxPages
  ELSE 1

\* nextContinuationToken of page n of a listing: the page it stands for
PageToken(bucketId, prefix, n) == <<[bucketId |-> bucketId, prefix |-> prefix, page |-> n]>>

\* a listing request of fetchFiles
ListRequest(bucketId, prefix, continuationToken) ==
  [bucketId |-> bucketId, prefix |-> prefix, continuationToken |-> continuationToken]

NoListRequest == <<>>

\* the answer of the route: objects (here the one object of the page),
\* isTruncated and nextContinuationToken
ListAnswer(request) ==
  LET n == IF request.continuationToken = NoToken THEN 1
           ELSE request.continuationToken[1].page
      last == PageCount(request.bucketId, request.prefix)
  IN [objects |-> IF n <= last THEN {[bucketId |-> request.bucketId,
                                      prefix |-> request.prefix, page |-> n]}
                  ELSE {},
      isTruncated |-> n < last,
      nextContinuationToken |->
        IF n < last THEN PageToken(request.bucketId, request.prefix, n + 1) ELSE NoToken]

FirstPage == [token |-> NoToken, page |-> 1]

\* fetchFiles(token, prefix): the request goes out; setIsLoading aside,
\* nothing changes before the answer
FetchFiles(u, continuationToken, prefix) ==
  LET request == ListRequest(u.bucketId, prefix, continuationToken)
  IN [u EXCEPT !.inFlight = @ \cup {request}, !.latest = request]

\* the fetch effect: it runs when bucketId or currentPrefix changed
FetchEffect(old, new) ==
  IF new.bucketId # old.bucketId \/ new.currentPrefix # old.currentPrefix
  THEN FetchFiles(new, NoToken, new.currentPrefix)
  ELSE new

NavigateToFolder(u, folderPath) ==
  [u EXCEPT !.folderHistory = IF u.currentPrefix # <<>> THEN Append(@, u.currentPrefix) ELSE @,
            !.currentPrefix = folderPath,
            !.continuationToken = NoToken,
            !.isTruncated = FALSE]

NavigateBack_KeepsHistory(u) ==
  [u EXCEPT !.currentPrefix = IF Len(u.folderHistory) > 0
                              THEN u.folderHistory[Len(u.folderHistory)] ELSE <<>>,
            !.continuationToken = NoToken,
            !.isTruncated = FALSE]

NavigateBack(u) ==
  [u EXCEPT !.folderHistory = IF Len(@) > 0 THEN SubSeq(@, 1, Len(@) - 1) ELSE @,
            !.currentPrefix = IF Len(u.folderHistory) > 0
                              THEN u.folderHistory[Len(u.folderHistory)] ELSE <<>>,
            !.continuationToken = NoToken,
            !.isTruncated = FALSE]

NavigateToRoot(u) ==
  [u EXCEPT !.currentPrefix = <<>>,
            !.folderHistory = <<>>,
            !.continuationToken = NoToken,
            !.isTruncated = FALSE]

\* getBreadcrumbSegments: the paths of the segments of currentPrefix
RECURSIVE BreadcrumbPaths(_, _)
BreadcrumbPaths(prefix, from) ==
  LET rest == SubSeq(prefix, from, Len(prefix))
      at == IndexOf(rest, Slash)
  IN IF rest = <<>> THEN {}
     ELSE IF at = -1 THEN {prefix \o Slash}
     ELSE (IF at = 0 THEN {} ELSE {SubSeq(prefix, 1, from + at)})
          \cup BreadcrumbPaths(prefix, from + at + 1)

HandlePrevious_SamePage(u) ==
  IF u.currentPageIndex > 0
  THEN FetchFiles([u EXCEPT !.currentPageIndex = @ - 1],
                  u.pageHistory[u.currentPageIndex + 1].token, u.currentPrefix)
  ELSE u

HandlePrevious(u) ==
  IF u.currentPageIndex > 0
  THEN FetchFiles([u EXCEPT !.currentPageIndex = @ - 1],
                  u.pageHistory[u.currentPageIndex].token, u.currentPrefix)
  ELSE u

CurrentPage(u) ==
  IF u.currentPageIndex + 1 \in DOMAIN u.pageHistory
  THEN u.pageHistory[u.currentPageIndex + 1].page ELSE 1

HandleNext(u) ==
  IF ~u.isTruncated THEN u
  ELSE IF u.currentPageIndex < Len(u.pageHistory) - 1
  THEN FetchFiles([u EXCEPT !.currentPageIndex = @ + 1],
                  u.pageHistory[u.currentPageIndex + 2].token, u.currentPrefix)
  ELSE FetchFiles([u EXCEPT !.pageHistory =
                               Append(@, [token |-> u.continuationToken,
                                          page |-> CurrentPage(u) + 1]),
                            !.currentPageIndex = Len(u.pageHistory)],
                  u.continuationToken, u.currentPrefix)

NavInit ==
  /\ configFile = ValidConfigFile
  /\ store = {}
  /\ req \in [op : {"nav"}, selecting : BOOLEAN]
  /\ pc = "mounted"
  /\ token = NoToken
  /\ pages = <<>>
  /\ calls = <<>>
  /\ resp = NoResponse
  /\ allKeys = <<>>
  /\ batchStart = 0
  /\ before = store
  /\ bytes = NoBytes
  /\ \E bucketId \in NavBuckets :
       ui = FetchFiles([bucketId |-> bucketId,
                        files |-> {},
                        continuationToken |-> NoToken,
                        isTruncated |-> FALSE,
                        currentPrefix |-> <<>>,
                        folderHistory |-> <<>>,
                        pageHistory |-> <<FirstPage>>,
                        currentPageIndex |-> 0,
                        selectedFiles |-> {},
                        inFlight |-> {},
                        latest |-> NoListRequest],
                       NoToken, <<>>)

\* room for one more request in flight; where rows are being selected the
\* requests are followed one at a time
MayFetch == Cardinality(ui.inFlight) < (IF req.selecting THEN 1 ELSE MaxInFlight)

\* a step of the component: the outcome of the user's action
Step(outcome) ==
  /\ req.op = "nav"
  /\ ui' = outcome
  /\ UiFrame

\* the answer to a request in flight arrives: the rest of fetchFiles
ReceiveListing ==
  /\ req.op = "nav"
  /\ \E request \in ui.inFlight :
       LET data == ListAnswer(request)
       IN ui' = [ui EXCEPT !.continuationToken = data.nextContinuationToken,
                           !.isTruncated = data.isTruncated,
                           !.files = data.objects,
                           !.inFlight = @ \ {request}]
  /\ UiFrame

\* a click on the folder that the listing shown holds
FolderClick ==
  /\ MayFetch
  /\ Len(ui.folderHistory) < MaxHistory
  /\ \E file \in ui.files :
       LET folderPath == file.prefix \o <<"a", "/">>
       IN /\ folderPath \in NavFolders
          /\ Step(FetchEffect(ui, NavigateToFolder(ui, folderPath)))

\* a click on a segment of the breadcrumb
BreadcrumbClick ==
  /\ MayFetch
  /\ Len(ui.folderHistory) < MaxHistory
  /\ \E folderPath \in BreadcrumbPaths(ui.currentPrefix, 1) :
       Step(FetchEffect(ui, NavigateToFolder(ui, folderPath)))

\* the Back button, shown away from the root
BackClick ==
  /\ MayFetch
  /\ ui.currentPrefix # <<>>
  /\ Step(FetchEffect(ui, NavigateBack(ui)))

\* the Home button
HomeClick ==
  /\ MayFetch
  /\ Step(FetchEffect(ui, NavigateToRoot(ui)))

\* another bucket is picked in the sidebar: the adapter stays mounted,
\* BucketManager empties its selection
SwitchBucket ==
  /\ MayFetch
  /\ \E bucketId \in NavBuckets \ {ui.bucketId} :
       Step(FetchEffect(ui, [ui EXCEPT !.bucketId = bucketId, !.selectedFiles = {}]))

\* onRefresh: fetchFiles()
RefreshClick ==
  /\ MayFetch
  /\ Step(FetchFiles(ui, NoToken, ui.currentPrefix))

PreviousClick ==
  /\ MayFetch
  /\ Step(HandlePrevious(ui))

NextClick ==
  /\ MayFetch
  /\ Len(ui.pageHistory) < MaxPageHistory
  /\ Step(HandleNext(ui))

\* handleSelectFile on a row of the listing shown
NavSelectFile ==
  /\ req.selecting
  /\ \E file \in ui.files :
       /\ file \in ui.selectedFiles \/ Cardinality(ui.selectedFiles) < MaxSelected
       /\ Step([ui EXCEPT !.selectedFiles =
                            IF file \in @ THEN @ \ {file} ELSE @ \cup {file}])

\* handleSelectAll
NavSelectAll ==
  /\ req.selecting
  /\ ui.files # {}
  /\ \E checked \in BOOLEAN :
       Step([ui EXCEPT !.selectedFiles = IF checked THEN ui.files ELSE {}])

\* a confirmed handleDelete that went through: onRefresh, selection emptied
NavDeleted ==
  /\ MayFetch
  /\ ui.selectedFiles # {}
  /\ Step(FetchFiles([ui EXCEPT !.selectedFiles = {}], NoToken, ui.currentPrefix))

NavNext ==
  \/ ReceiveListing
  \/ FolderClick
  \/ BreadcrumbClick
  \/ BackClick
  \/ HomeClick
  \/ SwitchBucket
  \/ RefreshClick
  \/ PreviousClick
  \/ NextClick
  \/ NavSelectFile
  \/ NavSelectAll
  \/ NavDeleted

SpecNav == NavInit /\ [][NavNext]_vars


(* ------------------------------------------------------------------ *)
(* Properties of pagination, navigation and selection (SpecNav)        *)
(* ------------------------------------------------------------------ *)

\* C24: in FilePagination currentPageIndex stays within the history, the page
\* shown is currentPageIndex + 1, the first entry of the history has no token,
\* Previous on the first page and Next on a page that is not truncated change
\* nothing and request nothing, and Previous right after Next requests the
\* token of the page shown before Next.
C24_PaginationHistory ==
  req.op = "nav" =>
    /\ ui.currentPageIndex \in 0..(Len(ui.pageHistory) - 1)
    /\ CurrentPage(ui) = ui.currentPageIndex + 1
    /\ ui.pageHistory[1].token = NoToken
    /\ ui.currentPageIndex = 0 => HandlePrevious(ui) = ui
    /\ ~ui.isTruncated => HandleNext(ui) = ui
    /\ ui.isTruncated =>
         LET after == HandlePrevious(HandleNext(ui))
         IN /\ after.currentPageIndex = ui.currentPageIndex
            /\ after.latest = ListRequest(ui.bucketId, ui.currentPrefix,
                                          ui.pageHistory[ui.currentPageIndex + 1].token)

\* the second of three pages is shown again, by Previous after two Next
C24_Witness ==
  /\ req.op = "nav"
  /\ ui.currentPageIndex = 1
  /\ Len(ui.pageHistory) = 3
  /\ ui.currentPrefix = <<>>
  /\ ui.latest.continuationToken = ui.pageHistory[2].token
  /\ ui.latest.continuationToken # NoToken
  /\ ui.inFlight = {}
  /\ ui.isTruncated

\* C25: when the current prefix changes the pagination is reset to page 1
\* with a history of the first page only, so that no continuation token
\* obtained under one prefix is sent with a listing request for another.
C25_PrefixChangeResetsPagination ==
  /\ [][ui'.currentPrefix # ui.currentPrefix =>
          ui'.pageHistory = <<FirstPage>> /\ ui'.currentPageIndex = 0]_vars
  /\ [](\A request \in ui.inFlight :
          request.continuationToken # NoToken =>
            request.continuationToken[1].prefix = request.prefix)

\* C26: once every listing request in flight was answered, in whatever order,
\* the files shown, isTruncated and continuationToken are those of the
\* request made last.
C26_LastRequestWins ==
  (req.op = "nav" /\ ui.inFlight = {}) =>
    /\ ui.files = ListAnswer(ui.latest).objects
    /\ ui.isTruncated = ListAnswer(ui.latest).isTruncated
    /\ ui.continuationToken = ListAnswer(ui.latest).nextContinuationToken

\* C27: every id in selectedFiles is the id of an item of the file list shown.
C27_SelectionIsShown ==
  req.op = "nav" => ui.selectedFiles \subseteq ui.files

\* C28: folder navigation is a stack: navigateBack right after
\* navigateToFolder(F) restores currentPrefix and folderHistory,
\* navigateToRoot empties both, and an empty currentPrefix comes with an
\* empty folderHistory.
C28_NavigationIsStack ==
  req.op = "nav" =>
    /\ \A folderPath \in NavFolders \cup BreadcrumbPaths(ui.currentPrefix, 1) :
         LET back == NavigateBack(NavigateToFolder(ui, folderPath))
         IN /\ back.currentPrefix = ui.currentPrefix
            /\ back.folderHistory = ui.folderHistory
    /\ NavigateToRoot(ui).currentPrefix = <<>>
    /\ NavigateToRoot(ui).folderHistory = <<>>
    /\ ui.currentPrefix = <<>> => ui.folderHistory = <<>>

\* two folders down, with the folder above on the history
C28_Witness ==
  /\ req.op = "nav"
  /\ ui.currentPrefix = <<"a", "/", "a", "/">>
  /\ ui.folderHistory = << <<"a", "/">> >>
  /\ ui.inFlight = {}

\* a navigation action acted: the prefix or the history changed, or the
\* pagination props were reset with no request answered or made
NavigationActed ==
  \/ ui'.currentPrefix # ui.currentPrefix
  \/ ui'.folderHistory # ui.folderHistory
  \/ /\ ui'.inFlight = ui.inFlight
     /\ ui'.isTruncated # ui.isTruncated \/ ui'.continuationToken # ui.continuationToken

\* C30: every navigation action is followed by a listing request for the
\* resulting currentPrefix without a continuation token, after which
\* isTruncated and continuationToken are those of that prefix's first page.
C30_NavigationRefetches ==
  /\ [][NavigationActed =>
          LET request == ListRequest(ui'.bucketId, ui'.currentPrefix, NoToken)
          IN request \in ui'.inFlight /\ ui'.latest = request]_vars
  /\ []((ui.inFlight = {} /\ ui.latest = ListRequest(ui.bucketId, ui.currentPrefix, NoToken)) =>
          /\ ui.isTruncated = ListAnswer(ui.latest).isTruncated
          /\ ui.continuationToken = ListAnswer(ui.latest).nextContinuationToken)


(* ------------------------------------------------------------------ *)
(* One handleDelete at a time (SpecUi)                                 *)
(* ------------------------------------------------------------------ *)

\* C29: at most one handleDelete runs at a time: isDeleting is true while it
\* has fetches to send, while it is true the Delete button and the dialog's
\* action are disabled and no step starts a handleDelete anew, a handleDelete
\* that ends leaves isDeleting false, and a fetch that fails ends it with the
\* fetches after it unsent and the selection kept.
C29_OneDeleteAtATime ==
  /\ [](ui.pending # <<>> => ui.isDeleting)
  /\ [](ui.isDeleting => ConfirmDisabled(ui) /\ DeleteButtonDisabled(ui))
  /\ [][ui.isDeleting =>
          \/ ui'.pending = ui.pending
          \/ ui.pending # <<>> /\ ui'.pending \in {Tail(ui.pending), <<>>}]_vars
  /\ [][(ui.isDeleting /\ ~ui'.isDeleting) => ui'.pending = <<>>]_vars
  /\ [][(ui.isDeleting /\ ~ui'.isDeleting /\ ui.pending # <<>>) =>
          /\ ui'.sent = Head(ui.pending)
          /\ ui'.selectedFiles = ui.selectedFiles
          /\ ui'.files = ui.files]_vars

\* the first of two delete fetches failed: handleDelete is over, the
\* selection is as it was
C29_Witness ==
  /\ ui # NoUi
  /\ req.op = "ui"
  /\ ~ui.isDeleting
  /\ IsDelete(ui.sent)
  /\ Len(DeleteFetches(ui)) >= 2
  /\ ui.sent = DeleteFetches(ui)[1]

====
